---- MODULE Spec2Model ----
(***************************************************************************)
(* HeaderVet: the thirteen header checkers, the grading engine             *)
(* (calculateGrade, parseGrade, meetsMinGrade), the CLI scan loop with its *)
(* CI gate, the SARIF reporter and the fetch loop of fetchHeaders.  Header *)
(* values are strings and are processed character by character, as the    *)
(* JavaScript string methods and regular expressions of the source do.     *)
(***************************************************************************)
EXTENDS Integers, Sequences, FiniteSets, TLC

(***************************************************************************)
(* Bounds of the model.                                                    *)
(***************************************************************************)
\* number of header edits applied to a base response before it is scanned
MaxEdits == 1
\* number of checks of a synthetic check list that are rewritten
MaxMutations == 1
\* number of URLs on the command line
MaxUrls == 2
\* number of single checker calls made on one header map
MaxCalls == 3

(***************************************************************************)
(* JavaScript string primitives.                                           *)
(***************************************************************************)
UpperAlpha == "ABCDEFGHIJKLMNOPQRSTUVWXYZ"
LowerAlpha == "abcdefghijklmnopqrstuvwxyz"
Digits == "0123456789"

CharAt(s, i) == SubSeq(s, i, i)

\* the least element of a non-empty set of integers
Least(S) == CHOOSE i \in S : \A j \in S : i <= j

\* position of the one-character string c in alphabet a, 0 when absent
PosIn(a, c) ==
  LET hits == {i \in 1..Len(a) : CharAt(a, i) = c} IN
  IF hits = {} THEN 0 ELSE Least(hits)

LowerChar(c) ==
  LET p == PosIn(UpperAlpha, c) IN IF p = 0 THEN c ELSE CharAt(LowerAlpha, p)

UpperChar(c) ==
  LET p == PosIn(LowerAlpha, c) IN IF p = 0 THEN c ELSE CharAt(UpperAlpha, p)

\* String.prototype.toLowerCase, character by character (the string is
\* halved at each step to keep the evaluation shallow)
RECURSIVE toLowerCase(_)
toLowerCase(s) ==
  IF Len(s) = 0 THEN ""
  ELSE IF Len(s) = 1 THEN LowerChar(s)
  ELSE LET h == Len(s) \div 2 IN
       toLowerCase(SubSeq(s, 1, h)) \o toLowerCase(SubSeq(s, h + 1, Len(s)))

\* String.prototype.toUpperCase
RECURSIVE toUpperCase(_)
toUpperCase(s) ==
  IF Len(s) = 0 THEN ""
  ELSE IF Len(s) = 1 THEN UpperChar(s)
  ELSE LET h == Len(s) \div 2 IN
       toUpperCase(SubSeq(s, 1, h)) \o toUpperCase(SubSeq(s, h + 1, Len(s)))

\* the white space characters occurring in the modelled values
IsSpace(c) == c \in {" ", "\t"}

IsDigit(c) == PosIn(Digits, c) # 0

\* s without its leading white space
TrimStart(s) ==
  LET solid == {i \in 1..Len(s) : ~IsSpace(CharAt(s, i))} IN
  IF solid = {} THEN "" ELSE SubSeq(s, Least(solid), Len(s))

\* s without its trailing white space
TrimEnd(s) ==
  LET solid == {i \in 1..Len(s) : ~IsSpace(CharAt(s, i))} IN
  IF solid = {} THEN ""
  ELSE SubSeq(s, 1, CHOOSE i \in solid : \A j \in solid : j <= i)

\* String.prototype.trim
trim(s) == TrimEnd(TrimStart(s))

\* String.prototype.startsWith
startsWith(s, p) == Len(p) <= Len(s) /\ SubSeq(s, 1, Len(p)) = p

\* first index >= i at which sub occurs in s, 0 when it does not
IndexFrom(s, sub, i) ==
  LET hits == {j \in i..(Len(s) - Len(sub) + 1) :
                 SubSeq(s, j, j + Len(sub) - 1) = sub} IN
  IF hits = {} THEN 0 ELSE Least(hits)

indexOf(s, sub) == IndexFrom(s, sub, 1)

\* String.prototype.includes
includes(s, sub) == indexOf(s, sub) # 0

\* String.prototype.split with a one-character separator
RECURSIVE split(_, _)
split(s, sep) ==
  LET i == indexOf(s, sep) IN
  IF i = 0 THEN <<s>>
  ELSE <<SubSeq(s, 1, i - 1)>> \o split(SubSeq(s, i + 1, Len(s)), sep)

\* String.prototype.split(/\s+/): runs of white space separate the tokens;
\* leading or trailing white space yields an empty first or last token
RECURSIVE splitWs(_)
splitWs(s) ==
  LET spaces == {i \in 1..Len(s) : IsSpace(CharAt(s, i))} IN
  IF spaces = {} THEN <<s>>
  ELSE LET i == Least(spaces) IN
       <<SubSeq(s, 1, i - 1)>> \o splitWs(TrimStart(SubSeq(s, i, Len(s))))

\* String.prototype.replace(/\s/g, '')
RECURSIVE stripWs(_)
stripWs(s) ==
  IF Len(s) = 0 THEN ""
  ELSE IF Len(s) = 1 THEN (IF IsSpace(s) THEN "" ELSE s)
  ELSE LET h == Len(s) \div 2 IN
       stripWs(SubSeq(s, 1, h)) \o stripWs(SubSeq(s, h + 1, Len(s)))

\* the longest prefix of s made of digits (the \d+ or \d* of a pattern)
DigitRun(s) ==
  LET stops == {i \in 1..Len(s) : ~IsDigit(CharAt(s, i))} IN
  IF stops = {} THEN s ELSE SubSeq(s, 1, Least(stops) - 1)

\* parseInt(s, 10) of a string of digits
RECURSIVE ParseDigits(_, _)
ParseDigits(s, acc) ==
  IF Len(s) = 0 THEN acc
  ELSE ParseDigits(Tail(s), 10 * acc + (PosIn(Digits, Head(s)) - 1))

parseInt(s) == ParseDigits(s, 0)

\* s.match(/<key>(\d+)/): the digits captured by the leftmost match of key
\* followed by at least one digit, as <<digits>>, or <<>> when no match
matchKeyDigits(s, key) ==
  LET hits == {j \in 1..(Len(s) - Len(key)) :
                 /\ SubSeq(s, j, j + Len(key) - 1) = key
                 /\ IsDigit(CharAt(s, j + Len(key)))} IN
  IF hits = {} THEN <<>>
  ELSE <<DigitRun(SubSeq(s, Least(hits) + Len(key), Len(s)))>>

\* Array.prototype.includes on a sequence
SeqIncludes(seq, x) == \E i \in 1..Len(seq) : seq[i] = x

\* Math.round of a number held in halves (h = 2 * x): halves round up
RoundHalves(h) == (h + 1) \div 2

Max(a, b) == IF a >= b THEN a ELSE b
Min(a, b) == IF a <= b THEN a ELSE b

\* Clamp without its floor: Math.min(hi, x)
ClampNoFloor(x, hi) == Min(hi, x)

\* Clamp giving the top of the range whatever the score
ClampToTop(x, hi) == hi

\* Math.max(0, Math.min(hi, x))
Clamp(x, hi) == Max(0, Min(hi, x))

(***************************************************************************)
(* Header maps and HeaderCheck records.                                    *)
(***************************************************************************)
HeaderNames ==
  << "content-security-policy", "strict-transport-security",
     "x-frame-options", "x-content-type-options", "permissions-policy",
     "cross-origin-opener-policy", "cross-origin-embedder-policy",
     "cross-origin-resource-policy", "referrer-policy", "x-xss-protection",
     "cache-control", "set-cookie", "x-dns-prefetch-control" >>

Statuses == {"pass", "warn", "fail", "missing"}
Severities == {"critical", "high", "medium", "low", "info"}

\* headers[HEADER] ?? null : <<>> is null, <<v>> is the string v
Lookup(headers, name) ==
  IF name \in DOMAIN headers THEN <<headers[name]>> ELSE <<>>

\* !value : null and the empty string are falsy
Falsy(value) == value = <<>> \/ value[1] = ""

\* a HeaderCheck; hasRec is (recommendation !== null), issues the issue
\* notes that make up the message
Check(header, status, severity, value, score, maxScore, hasRec, issues) ==
  [header |-> header, status |-> status, severity |-> severity,
   value |-> value, score |-> score, maxScore |-> maxScore,
   hasRec |-> hasRec, issues |-> issues]

(***************************************************************************)
(* The checkers.                                                           *)
(***************************************************************************)
checkXFrameOptions(headers) ==
  LET value == Lookup(headers, "x-frame-options") IN
  IF Falsy(value)
  THEN Check("X-Frame-Options", "missing", "medium", <<>>, 0, 5, TRUE, <<>>)
  ELSE LET upper == trim(toUpperCase(value[1])) IN
       IF upper = "DENY"
       THEN Check("X-Frame-Options", "pass", "info", value, 5, 5, FALSE, <<>>)
       ELSE IF upper = "SAMEORIGIN"
       THEN Check("X-Frame-Options", "pass", "info", value, 5, 5, FALSE, <<>>)
       ELSE IF startsWith(upper, "ALLOW-FROM")
       THEN Check("X-Frame-Options", "warn", "low", value, 3, 5, TRUE, <<>>)
       ELSE Check("X-Frame-Options", "fail", "medium", value, 1, 5, TRUE, <<>>)

\* checkXContentTypeOptions reporting a value other than nosniff as a
\* missing header
checkXContentTypeOptionsStrict(headers) ==
  LET value == Lookup(headers, "x-content-type-options") IN
  IF Falsy(value) \/ toLowerCase(trim(value[1])) # "nosniff"
  THEN Check("X-Content-Type-Options", "missing", "medium", <<>>, 0, 5,
             TRUE, <<>>)
  ELSE Check("X-Content-Type-Options", "pass", "info", value, 5, 5,
             FALSE, <<>>)

checkXContentTypeOptions(headers) ==
  LET value == Lookup(headers, "x-content-type-options") IN
  IF Falsy(value)
  THEN Check("X-Content-Type-Options", "missing", "medium", <<>>, 0, 5,
             TRUE, <<>>)
  ELSE IF toLowerCase(trim(value[1])) = "nosniff"
  THEN Check("X-Content-Type-Options", "pass", "info", value, 5, 5,
             FALSE, <<>>)
  ELSE Check("X-Content-Type-Options", "fail", "medium", value, 1, 5,
             TRUE, <<>>)

\* checkXXSSProtection reporting an absent header as missing, like the
\* other checkers
checkXXSSProtectionMissing(headers) ==
  LET value == Lookup(headers, "x-xss-protection") IN
  IF Falsy(value)
  THEN Check("X-XSS-Protection", "missing", "info", <<>>, 0, 5, TRUE, <<>>)
  ELSE LET v == trim(value[1]) IN
       IF v = "0"
       THEN Check("X-XSS-Protection", "pass", "info", value, 5, 5, FALSE, <<>>)
       ELSE IF v = "1; mode=block"
       THEN Check("X-XSS-Protection", "warn", "low", value, 3, 5, TRUE, <<>>)
       ELSE Check("X-XSS-Protection", "warn", "low", value, 2, 5, TRUE, <<>>)

\* checkXXSSProtection giving its advice to disable the filter also when
\* the header is absent
checkXXSSProtectionAdvising(headers) ==
  LET value == Lookup(headers, "x-xss-protection") IN
  IF Falsy(value)
  THEN Check("X-XSS-Protection", "pass", "info", <<>>, 5, 5, TRUE, <<>>)
  ELSE LET v == trim(value[1]) IN
       IF v = "0"
       THEN Check("X-XSS-Protection", "pass", "info", value, 5, 5, FALSE, <<>>)
       ELSE IF v = "1; mode=block"
       THEN Check("X-XSS-Protection", "warn", "low", value, 3, 5, TRUE, <<>>)
       ELSE Check("X-XSS-Protection", "warn", "low", value, 2, 5, TRUE, <<>>)

checkXXSSProtection(headers) ==
  LET value == Lookup(headers, "x-xss-protection") IN
  IF Falsy(value)
  THEN Check("X-XSS-Protection", "pass", "info", <<>>, 5, 5, FALSE, <<>>)
  ELSE LET v == trim(value[1]) IN
       IF v = "0"
       THEN Check("X-XSS-Protection", "pass", "info", value, 5, 5, FALSE, <<>>)
       ELSE IF v = "1; mode=block"
       THEN Check("X-XSS-Protection", "warn", "low", value, 3, 5, TRUE, <<>>)
       ELSE IF v = "1"
       THEN Check("X-XSS-Protection", "warn", "low", value, 2, 5, TRUE, <<>>)
       ELSE Check("X-XSS-Protection", "warn", "low", value, 2, 5, TRUE, <<>>)

checkCOOP(headers) ==
  LET value == Lookup(headers, "cross-origin-opener-policy") IN
  IF Falsy(value)
  THEN Check("Cross-Origin-Opener-Policy", "missing", "low", <<>>, 0, 5,
             TRUE, <<>>)
  ELSE LET v == toLowerCase(trim(value[1])) IN
       IF v = "same-origin"
       THEN Check("Cross-Origin-Opener-Policy", "pass", "info", value, 5, 5,
                  FALSE, <<>>)
       ELSE IF v = "same-origin-allow-popups"
       THEN Check("Cross-Origin-Opener-Policy", "pass", "info", value, 4, 5,
                  FALSE, <<>>)
       ELSE IF v = "unsafe-none"
       THEN Check("Cross-Origin-Opener-Policy", "warn", "low", value, 2, 5,
                  TRUE, <<>>)
       ELSE Check("Cross-Origin-Opener-Policy", "fail", "low", value, 1, 5,
                  TRUE, <<>>)

checkCOEP(headers) ==
  LET value == Lookup(headers, "cross-origin-embedder-policy") IN
  IF Falsy(value)
  THEN Check("Cross-Origin-Embedder-Policy", "missing", "low", <<>>, 0, 5,
             TRUE, <<>>)
  ELSE LET v == toLowerCase(trim(value[1])) IN
       IF v = "require-corp"
       THEN Check("Cross-Origin-Embedder-Policy", "pass", "info", value, 5, 5,
                  FALSE, <<>>)
       ELSE IF v = "credentialless"
       THEN Check("Cross-Origin-Embedder-Policy", "pass", "info", value, 4, 5,
                  FALSE, <<>>)
       ELSE IF v = "unsafe-none"
       THEN Check("Cross-Origin-Embedder-Policy", "warn", "low", value, 2, 5,
                  TRUE, <<>>)
       ELSE Check("Cross-Origin-Embedder-Policy", "fail", "low", value, 1, 5,
                  TRUE, <<>>)

checkCORP(headers) ==
  LET value == Lookup(headers, "cross-origin-resource-policy") IN
  IF Falsy(value)
  THEN Check("Cross-Origin-Resource-Policy", "missing", "low", <<>>, 0, 5,
             TRUE, <<>>)
  ELSE LET v == toLowerCase(trim(value[1])) IN
       IF v = "same-origin"
       THEN Check("Cross-Origin-Resource-Policy", "pass", "info", value, 5, 5,
                  FALSE, <<>>)
       ELSE IF v = "same-site"
       THEN Check("Cross-Origin-Resource-Policy", "pass", "info", value, 4, 5,
                  FALSE, <<>>)
       ELSE IF v = "cross-origin"
       THEN Check("Cross-Origin-Resource-Policy", "warn", "low", value, 2, 5,
                  TRUE, <<>>)
       ELSE Check("Cross-Origin-Resource-Policy", "fail", "low", value, 1, 5,
                  TRUE, <<>>)

SECURE_VALUES ==
  <<"no-referrer", "strict-origin", "strict-origin-when-cross-origin",
    "same-origin">>
WEAK_VALUES == <<"origin", "origin-when-cross-origin">>
UNSAFE_VALUES == <<"unsafe-url", "no-referrer-when-downgrade">>

\* checkReferrerPolicy judging the first policy of the list
checkReferrerPolicyFirst(headers) ==
  LET value == Lookup(headers, "referrer-policy") IN
  IF Falsy(value)
  THEN Check("Referrer-Policy", "missing", "medium", <<>>, 0, 5, TRUE, <<>>)
  ELSE LET parts == split(value[1], ",")
           policies == [i \in 1..Len(parts) |-> toLowerCase(trim(parts[i]))]
           effective == policies[1]
       IN
       IF SeqIncludes(SECURE_VALUES, effective)
       THEN Check("Referrer-Policy", "pass", "info", value, 5, 5, FALSE, <<>>)
       ELSE IF SeqIncludes(WEAK_VALUES, effective)
       THEN Check("Referrer-Policy", "warn", "low", value, 3, 5, TRUE, <<>>)
       ELSE Check("Referrer-Policy", "fail", "medium", value, 1, 5, TRUE, <<>>)

checkReferrerPolicy(headers) ==
  LET value == Lookup(headers, "referrer-policy") IN
  IF Falsy(value)
  THEN Check("Referrer-Policy", "missing", "medium", <<>>, 0, 5, TRUE, <<>>)
  ELSE LET parts == split(value[1], ",")
           policies == [i \in 1..Len(parts) |-> toLowerCase(trim(parts[i]))]
           effective == policies[Len(policies)]
       IN
       IF SeqIncludes(SECURE_VALUES, effective)
       THEN Check("Referrer-Policy", "pass", "info", value, 5, 5, FALSE, <<>>)
       ELSE IF SeqIncludes(WEAK_VALUES, effective)
       THEN Check("Referrer-Policy", "warn", "low", value, 3, 5, TRUE, <<>>)
       ELSE IF SeqIncludes(UNSAFE_VALUES, effective)
       THEN Check("Referrer-Policy", "fail", "medium", value, 1, 5, TRUE, <<>>)
       ELSE Check("Referrer-Policy", "fail", "medium", value, 1, 5, TRUE, <<>>)

\* checkDNSPrefetchControl with the maxScore of the other checkers on its
\* last return
checkDNSPrefetchControlMax5(headers) ==
  LET value == Lookup(headers, "x-dns-prefetch-control") IN
  IF Falsy(value)
  THEN Check("X-DNS-Prefetch-Control", "warn", "low", <<>>, 1, 3, TRUE, <<>>)
  ELSE LET v == toLowerCase(trim(value[1])) IN
       IF v = "off"
       THEN Check("X-DNS-Prefetch-Control", "pass", "info", value, 3, 3,
                  FALSE, <<>>)
       ELSE IF v = "on"
       THEN Check("X-DNS-Prefetch-Control", "warn", "low", value, 1, 3,
                  TRUE, <<>>)
       ELSE Check("X-DNS-Prefetch-Control", "fail", "low", value, 0, 5,
                  TRUE, <<>>)

checkDNSPrefetchControl(headers) ==
  LET value == Lookup(headers, "x-dns-prefetch-control") IN
  IF Falsy(value)
  THEN Check("X-DNS-Prefetch-Control", "warn", "low", <<>>, 1, 3, TRUE, <<>>)
  ELSE LET v == toLowerCase(trim(value[1])) IN
       IF v = "off"
       THEN Check("X-DNS-Prefetch-Control", "pass", "info", value, 3, 3,
                  FALSE, <<>>)
       ELSE IF v = "on"
       THEN Check("X-DNS-Prefetch-Control", "warn", "low", value, 1, 3,
                  TRUE, <<>>)
       ELSE Check("X-DNS-Prefetch-Control", "fail", "low", value, 0, 3,
                  TRUE, <<>>)

MIN_MAX_AGE == 31536000

\* checkHSTS refusing a value it cannot parse a max-age from: the value is
\* dropped and the header reported as not sent
checkHSTSRejecting(headers) ==
  LET value == Lookup(headers, "strict-transport-security") IN
  IF Falsy(value) \/ matchKeyDigits(toLowerCase(value[1]), "max-age=") = <<>>
  THEN Check("Strict-Transport-Security", "missing", "critical", <<>>, 0, 10,
             TRUE, <<>>)
  ELSE Check("Strict-Transport-Security", "warn", "low", value, 6, 10, TRUE,
             <<"max-age found">>)

\* checkHSTS with warn kept for scores above 6 only
checkHSTSWarnAbove6(headers) ==
  LET value == Lookup(headers, "strict-transport-security") IN
  IF Falsy(value)
  THEN Check("Strict-Transport-Security", "missing", "critical", <<>>, 0, 10,
             TRUE, <<>>)
  ELSE LET lower == toLowerCase(value[1])
           \* value.match(/max-age=(\d+)/i)
           maxAgeMatch == matchKeyDigits(lower, "max-age=")
           maxAge == IF maxAgeMatch # <<>> THEN parseInt(maxAgeMatch[1]) ELSE 0
           hasIncludeSub == includes(lower, "includesubdomains")
           hasPreload == includes(lower, "preload")
           issues ==
             (IF maxAgeMatch = <<>> THEN <<"Missing max-age directive.">>
              ELSE IF maxAge < MIN_MAX_AGE
              THEN <<"max-age is below recommended minimum">>
              ELSE <<>>)
             \o (IF hasIncludeSub THEN <<>>
                 ELSE <<"Missing includeSubDomains">>)
             \o (IF hasPreload THEN <<>> ELSE <<"Missing preload">>)
           raw == 6
                  + (IF maxAgeMatch = <<>> THEN -3
                     ELSE IF maxAge < MIN_MAX_AGE THEN -2 ELSE 1)
                  + (IF hasIncludeSub THEN 2 ELSE 0)
                  + (IF hasPreload THEN 1 ELSE 0)
           score == Clamp(raw, 10)
       IN
       IF Len(issues) = 0
       THEN Check("Strict-Transport-Security", "pass", "info", value, score,
                  10, FALSE, issues)
       ELSE Check("Strict-Transport-Security",
                  IF score > 6 THEN "warn" ELSE "fail",
                  IF score > 6 THEN "low" ELSE "medium",
                  value, score, 10, TRUE, issues)

checkHSTS(headers) ==
  LET value == Lookup(headers, "strict-transport-security") IN
  IF Falsy(value)
  THEN Check("Strict-Transport-Security", "missing", "critical", <<>>, 0, 10,
             TRUE, <<>>)
  ELSE LET lower == toLowerCase(value[1])
           \* value.match(/max-age=(\d+)/i)
           maxAgeMatch == matchKeyDigits(lower, "max-age=")
           maxAge == IF maxAgeMatch # <<>> THEN parseInt(maxAgeMatch[1]) ELSE 0
           hasIncludeSub == includes(lower, "includesubdomains")
           hasPreload == includes(lower, "preload")
           issues ==
             (IF maxAgeMatch = <<>> THEN <<"Missing max-age directive.">>
              ELSE IF maxAge < MIN_MAX_AGE
              THEN <<"max-age is below recommended minimum">>
              ELSE <<>>)
             \o (IF hasIncludeSub THEN <<>>
                 ELSE <<"Missing includeSubDomains">>)
             \o (IF hasPreload THEN <<>> ELSE <<"Missing preload">>)
           raw == 6
                  + (IF maxAgeMatch = <<>> THEN -3
                     ELSE IF maxAge < MIN_MAX_AGE THEN -2 ELSE 1)
                  + (IF hasIncludeSub THEN 2 ELSE 0)
                  + (IF hasPreload THEN 1 ELSE 0)
           score == Clamp(raw, 10)
       IN
       IF Len(issues) = 0
       THEN Check("Strict-Transport-Security", "pass", "info", value, score,
                  10, FALSE, issues)
       ELSE Check("Strict-Transport-Security",
                  IF score >= 6 THEN "warn" ELSE "fail",
                  IF score >= 6 THEN "low" ELSE "medium",
                  value, score, 10, TRUE, issues)

sensitiveFeatures == <<"camera", "microphone", "geolocation", "payment">>

\* one feature of the loop of checkPermissionsPolicy: is it granted to all
FeatureAllowedForAll(policies, feature) ==
  \/ includes(policies, feature \o "=*")
  \/ includes(policies, feature \o "=(\"*\")")

checkPermissionsPolicy(headers) ==
  LET value == Lookup(headers, "permissions-policy") IN
  IF Falsy(value)
  THEN Check("Permissions-Policy", "missing", "medium", <<>>, 0, 5, TRUE, <<>>)
  ELSE LET policies == toLowerCase(value[1])
           Granted(f) == FeatureAllowedForAll(policies, f)
           Restricted(f) == ~Granted(f) /\ includes(policies, f \o "=()")
           granted == SelectSeq(sensitiveFeatures, Granted)
           restricted == SelectSeq(sensitiveFeatures, Restricted)
           issues == [i \in 1..Len(granted) |->
                        granted[i] \o " is allowed for all origins"]
           \* score = 3 - 1 per grant + 0.5 per restriction, in halves
           halves == 6 - 2 * Len(granted) + Len(restricted)
           score == Clamp(RoundHalves(halves), 5)
       IN
       IF Len(issues) = 0
       THEN Check("Permissions-Policy", "pass", "info", value, score, 5,
                  FALSE, issues)
       ELSE Check("Permissions-Policy", "warn", "medium", value, score, 5,
                  TRUE, issues)

\* checkCacheControl passing whenever no issue was recorded
checkCacheControlPassNoIssues(headers) ==
  LET value == Lookup(headers, "cache-control") IN
  IF Falsy(value)
  THEN Check("Cache-Control", "missing", "low", <<>>, 0, 5, TRUE, <<>>)
  ELSE LET lower == toLowerCase(value[1])
           noStore == includes(lower, "no-store")
           isPublic == includes(lower, "public")
           isPrivate == includes(lower, "private")
           \* lower.match(/s-maxage=(\d+)/)
           sMaxAgeMatch == matchKeyDigits(lower, "s-maxage=")
           sMaxAge == IF sMaxAgeMatch # <<>> THEN parseInt(sMaxAgeMatch[1])
                      ELSE 0
           issues ==
             (IF ~noStore /\ isPublic
              THEN <<"'public' directive may cache sensitive data">>
              ELSE <<>>)
             \o (IF sMaxAgeMatch # <<>> /\ sMaxAge > 0 /\ ~isPrivate
                    /\ ~noStore
                 THEN <<"s-maxage detected">> ELSE <<>>)
           \* score in halves: 2, +2 no-store else -1 public, +1 private,
           \* +0.5 no-cache, +0.5 must-revalidate
           halves == 4
                     + (IF noStore THEN 4 ELSE IF isPublic THEN -2 ELSE 0)
                     + (IF isPrivate THEN 2 ELSE 0)
                     + (IF includes(lower, "no-cache") THEN 1 ELSE 0)
                     + (IF includes(lower, "must-revalidate") THEN 1 ELSE 0)
           score == Clamp(RoundHalves(halves), 5)
       IN
       IF Len(issues) = 0
       THEN Check("Cache-Control", "pass", "info", value, score, 5, FALSE,
                  issues)
       ELSE Check("Cache-Control", IF score >= 3 THEN "warn" ELSE "fail",
                  "low", value, score, 5, TRUE, issues)

checkCacheControl(headers) ==
  LET value == Lookup(headers, "cache-control") IN
  IF Falsy(value)
  THEN Check("Cache-Control", "missing", "low", <<>>, 0, 5, TRUE, <<>>)
  ELSE LET lower == toLowerCase(value[1])
           noStore == includes(lower, "no-store")
           isPublic == includes(lower, "public")
           isPrivate == includes(lower, "private")
           \* lower.match(/s-maxage=(\d+)/)
           sMaxAgeMatch == matchKeyDigits(lower, "s-maxage=")
           sMaxAge == IF sMaxAgeMatch # <<>> THEN parseInt(sMaxAgeMatch[1])
                      ELSE 0
           issues ==
             (IF ~noStore /\ isPublic
              THEN <<"'public' directive may cache sensitive data">>
              ELSE <<>>)
             \o (IF sMaxAgeMatch # <<>> /\ sMaxAge > 0 /\ ~isPrivate
                    /\ ~noStore
                 THEN <<"s-maxage detected">> ELSE <<>>)
           \* score in halves: 2, +2 no-store else -1 public, +1 private,
           \* +0.5 no-cache, +0.5 must-revalidate
           halves == 4
                     + (IF noStore THEN 4 ELSE IF isPublic THEN -2 ELSE 0)
                     + (IF isPrivate THEN 2 ELSE 0)
                     + (IF includes(lower, "no-cache") THEN 1 ELSE 0)
                     + (IF includes(lower, "must-revalidate") THEN 1 ELSE 0)
           score == Clamp(RoundHalves(halves), 5)
       IN
       IF Len(issues) = 0 /\ score >= 4
       THEN Check("Cache-Control", "pass", "info", value, score, 5, FALSE,
                  issues)
       ELSE Check("Cache-Control", IF score >= 3 THEN "warn" ELSE "fail",
                  "low", value, score, 5, TRUE, issues)

(***************************************************************************)
(* Content-Security-Policy.  The directives object is a sequence of        *)
(* [name, vals] entries in insertion order; assigning an existing key      *)
(* replaces its value in place, as a JavaScript object does.               *)
(***************************************************************************)
HasKey(directives, name) ==
  \E i \in 1..Len(directives) : directives[i].name = name

Get(directives, name) ==
  directives[CHOOSE i \in 1..Len(directives) : directives[i].name = name].vals

Put(directives, name, vals) ==
  IF HasKey(directives, name)
  THEN [i \in 1..Len(directives) |->
          IF directives[i].name = name THEN [name |-> name, vals |-> vals]
          ELSE directives[i]]
  ELSE Append(directives, [name |-> name, vals |-> vals])

RECURSIVE ParseParts(_, _)
ParseParts(parts, result) ==
  IF Len(parts) = 0 THEN result
  ELSE LET tokens == splitWs(trim(Head(parts))) IN
       IF Len(tokens) = 0 \/ tokens[1] = ""
       THEN ParseParts(Tail(parts), result)
       ELSE ParseParts(Tail(parts),
                       Put(result, toLowerCase(tokens[1]), Tail(tokens)))

parseDirectives(csp) == ParseParts(split(csp, ";"), <<>>)

\* the unsafe-inline / unsafe-eval loop, over the entries in order
RECURSIVE UnsafeLoop(_, _)
UnsafeLoop(entries, acc) ==
  IF Len(entries) = 0 THEN acc
  ELSE LET dir == Head(entries).name
           vals == Head(entries).vals
           a1 == IF SeqIncludes(vals, "'unsafe-inline'")
                 THEN IF dir = "script-src" \/ dir = "default-src"
                      THEN [score |-> acc.score - 3,
                            issues |-> Append(acc.issues,
                               "'unsafe-inline' found in " \o dir
                               \o " - weakens CSP significantly.")]
                      ELSE [score |-> acc.score - 1,
                            issues |-> Append(acc.issues,
                               "'unsafe-inline' found in " \o dir
                               \o " - consider removing if possible.")]
                 ELSE acc
           a2 == IF SeqIncludes(vals, "'unsafe-eval'")
                 THEN [score |-> a1.score - 3,
                       issues |-> Append(a1.issues,
                          "'unsafe-eval' found in " \o dir)]
                 ELSE a1
       IN UnsafeLoop(Tail(entries), a2)

\* the wildcard loop
RECURSIVE WildcardLoop(_, _)
WildcardLoop(entries, acc) ==
  IF Len(entries) = 0 THEN acc
  ELSE LET dir == Head(entries).name
           vals == Head(entries).vals
           a1 == IF SeqIncludes(vals, "*")
                 THEN [score |-> acc.score - 2,
                       issues |-> Append(acc.issues,
                          "Wildcard source '*' in " \o dir)]
                 ELSE acc
       IN WildcardLoop(Tail(entries), a1)

\* if (!directives[name]) { issues.push(...); score -= penalty }
MissingDirective(directives, name, penalty, acc) ==
  IF ~HasKey(directives, name)
  THEN [score |-> acc.score - penalty,
        issues |-> Append(acc.issues, "Missing '" \o name \o "'")]
  ELSE acc

\* checkCSP without the nonce/hash note among the issues
checkCSPNoAdvisory(headers) ==
  LET value == Lookup(headers, "content-security-policy") IN
  IF Falsy(value)
  THEN Check("Content-Security-Policy", "missing", "critical", <<>>, 0, 15,
             TRUE, <<>>)
  ELSE LET directives == parseDirectives(value[1])
           a0 == [score |-> 8, issues |-> <<>>]
           a1 == MissingDirective(directives, "default-src", 2, a0)
           a2 == UnsafeLoop(directives, a1)
           a3 == WildcardLoop(directives, a2)
           a4 == MissingDirective(directives, "frame-ancestors", 1, a3)
           a5 == MissingDirective(directives, "base-uri", 1, a4)
           a6 == MissingDirective(directives, "form-action", 1, a5)
           a7 == MissingDirective(directives, "object-src", 1, a6)
           scriptSrc == IF HasKey(directives, "script-src")
                        THEN Get(directives, "script-src")
                        ELSE IF HasKey(directives, "default-src")
                        THEN Get(directives, "default-src")
                        ELSE <<>>
           hasNonce == \E i \in 1..Len(scriptSrc) :
                          startsWith(scriptSrc[i], "'nonce-")
           hasHash == \E i \in 1..Len(scriptSrc) :
                         \/ startsWith(scriptSrc[i], "'sha256-")
                         \/ startsWith(scriptSrc[i], "'sha384-")
                         \/ startsWith(scriptSrc[i], "'sha512-")
           a8 == a7
           bonus == IF HasKey(directives, "report-uri")
                       \/ HasKey(directives, "report-to") THEN 2 ELSE 0
           score == Clamp(a8.score + bonus, 15)
           issues == a8.issues
       IN
       IF Len(issues) = 0
       THEN Check("Content-Security-Policy", "pass", "info", value, score, 15,
                  FALSE, issues)
       ELSE Check("Content-Security-Policy",
                  IF score >= 7 THEN "warn" ELSE "fail",
                  IF score >= 7 THEN "medium" ELSE "high",
                  value, score, 15, TRUE, issues)

checkCSP(headers) ==
  LET value == Lookup(headers, "content-security-policy") IN
  IF Falsy(value)
  THEN Check("Content-Security-Policy", "missing", "critical", <<>>, 0, 15,
             TRUE, <<>>)
  ELSE LET directives == parseDirectives(value[1])
           a0 == [score |-> 8, issues |-> <<>>]
           a1 == MissingDirective(directives, "default-src", 2, a0)
           a2 == UnsafeLoop(directives, a1)
           a3 == WildcardLoop(directives, a2)
           a4 == MissingDirective(directives, "frame-ancestors", 1, a3)
           a5 == MissingDirective(directives, "base-uri", 1, a4)
           a6 == MissingDirective(directives, "form-action", 1, a5)
           a7 == MissingDirective(directives, "object-src", 1, a6)
           scriptSrc == IF HasKey(directives, "script-src")
                        THEN Get(directives, "script-src")
                        ELSE IF HasKey(directives, "default-src")
                        THEN Get(directives, "default-src")
                        ELSE <<>>
           hasNonce == \E i \in 1..Len(scriptSrc) :
                          startsWith(scriptSrc[i], "'nonce-")
           hasHash == \E i \in 1..Len(scriptSrc) :
                         \/ startsWith(scriptSrc[i], "'sha256-")
                         \/ startsWith(scriptSrc[i], "'sha384-")
                         \/ startsWith(scriptSrc[i], "'sha512-")
           a8 == IF ~hasNonce /\ ~hasHash /\ Len(scriptSrc) > 0
                    /\ ~SeqIncludes(scriptSrc, "'none'")
                 THEN [score |-> a7.score,
                       issues |-> Append(a7.issues,
                          "Consider using nonce-based or hash-based CSP")]
                 ELSE a7
           bonus == IF HasKey(directives, "report-uri")
                       \/ HasKey(directives, "report-to") THEN 2 ELSE 0
           score == Clamp(a8.score + bonus, 15)
           issues == a8.issues
       IN
       IF Len(issues) = 0
       THEN Check("Content-Security-Policy", "pass", "info", value, score, 15,
                  FALSE, issues)
       ELSE Check("Content-Security-Policy",
                  IF score >= 7 THEN "warn" ELSE "fail",
                  IF score >= 7 THEN "medium" ELSE "high",
                  value, score, 15, TRUE, issues)

(***************************************************************************)
(* Set-Cookie.                                                             *)
(***************************************************************************)
\* the lookahead (?=\s*[^;]*=) at the text after a comma: an '=' occurs
\* before any ';'
CookieFollows(rest) ==
  LET e == indexOf(rest, "=")
      sc == indexOf(rest, ";")
  IN e # 0 /\ (sc = 0 \/ e < sc)

\* value.split(/,(?=\s*[^;]*=)/)
RECURSIVE SplitCookies(_)
SplitCookies(s) ==
  LET cuts == {i \in 1..Len(s) :
                 CharAt(s, i) = "," /\ CookieFollows(SubSeq(s, i + 1, Len(s)))}
  IN
  IF cuts = {} THEN <<s>>
  ELSE LET i == Least(cuts) IN
       <<SubSeq(s, 1, i - 1)>> \o SplitCookies(SubSeq(s, i + 1, Len(s)))

\* cookie.match(/^([^=]+)=/) ? match[1].trim() : 'unknown'
CookieName(cookie) ==
  LET e == indexOf(cookie, "=") IN
  IF e > 1 THEN trim(SubSeq(cookie, 1, e - 1)) ELSE "unknown"

\* CookieStep taking a whole point for a missing SameSite
CookieStepSameSiteOne(cookie, acc) ==
  LET name == CookieName(cookie)
      rawParts == split(cookie, ";")
      parts == [i \in 1..Len(rawParts) |-> toLowerCase(trim(rawParts[i]))]
      attrs == Tail(parts)
      hasSecure == \E i \in 1..Len(attrs) : attrs[i] = "secure"
      hasHttpOnly == \E i \in 1..Len(attrs) : attrs[i] = "httponly"
      hasSameSite == \E i \in 1..Len(attrs) : startsWith(attrs[i], "samesite")
      hasSameSiteNone ==
        \E i \in 1..Len(attrs) : stripWs(attrs[i]) = "samesite=none"
      hasPath == \E i \in 1..Len(attrs) : startsWith(stripWs(attrs[i]), "path=/")
      i1 == IF ~hasSecure THEN <<name \o " is missing Secure flag">> ELSE <<>>
      i2 == IF ~hasHttpOnly THEN <<name \o " is missing HttpOnly flag">>
            ELSE <<>>
      i3 == IF ~hasSameSite THEN <<name \o " is missing SameSite attribute">>
            ELSE IF hasSameSiteNone /\ ~hasSecure
            THEN <<name \o " has SameSite=None without Secure">>
            ELSE <<>>
      i4 == IF startsWith(name, "__Secure-") /\ ~hasSecure
            THEN <<name \o " uses __Secure- prefix but is missing Secure flag">>
            ELSE <<>>
      i5 == IF startsWith(name, "__Host-") /\ ~hasSecure
            THEN <<name \o " uses __Host- prefix but is missing Secure flag">>
            ELSE <<>>
      i6 == IF startsWith(name, "__Host-") /\ ~hasPath
            THEN <<name \o " uses __Host- prefix but is missing Path=/">>
            ELSE <<>>
      delta == (IF ~hasSecure THEN -2 ELSE 0)
               + (IF ~hasHttpOnly THEN -2 ELSE 0)
               + (IF ~hasSameSite THEN -2
                  ELSE IF hasSameSiteNone /\ ~hasSecure THEN -2 ELSE 0)
  IN [halves |-> acc.halves + delta,
      issues |-> acc.issues \o i1 \o i2 \o i3 \o i4 \o i5 \o i6]

\* the body of the loop over the cookies: the score (in halves) and the
\* issues after one cookie
CookieStep(cookie, acc) ==
  LET name == CookieName(cookie)
      rawParts == split(cookie, ";")
      parts == [i \in 1..Len(rawParts) |-> toLowerCase(trim(rawParts[i]))]
      attrs == Tail(parts)
      hasSecure == \E i \in 1..Len(attrs) : attrs[i] = "secure"
      hasHttpOnly == \E i \in 1..Len(attrs) : attrs[i] = "httponly"
      hasSameSite == \E i \in 1..Len(attrs) : startsWith(attrs[i], "samesite")
      hasSameSiteNone ==
        \E i \in 1..Len(attrs) : stripWs(attrs[i]) = "samesite=none"
      hasPath == \E i \in 1..Len(attrs) : startsWith(stripWs(attrs[i]), "path=/")
      i1 == IF ~hasSecure THEN <<name \o " is missing Secure flag">> ELSE <<>>
      i2 == IF ~hasHttpOnly THEN <<name \o " is missing HttpOnly flag">>
            ELSE <<>>
      i3 == IF ~hasSameSite THEN <<name \o " is missing SameSite attribute">>
            ELSE IF hasSameSiteNone /\ ~hasSecure
            THEN <<name \o " has SameSite=None without Secure">>
            ELSE <<>>
      i4 == IF startsWith(name, "__Secure-") /\ ~hasSecure
            THEN <<name \o " uses __Secure- prefix but is missing Secure flag">>
            ELSE <<>>
      i5 == IF startsWith(name, "__Host-") /\ ~hasSecure
            THEN <<name \o " uses __Host- prefix but is missing Secure flag">>
            ELSE <<>>
      i6 == IF startsWith(name, "__Host-") /\ ~hasPath
            THEN <<name \o " uses __Host- prefix but is missing Path=/">>
            ELSE <<>>
      delta == (IF ~hasSecure THEN -2 ELSE 0)
               + (IF ~hasHttpOnly THEN -2 ELSE 0)
               + (IF ~hasSameSite THEN -1
                  ELSE IF hasSameSiteNone /\ ~hasSecure THEN -2 ELSE 0)
  IN [halves |-> acc.halves + delta,
      issues |-> acc.issues \o i1 \o i2 \o i3 \o i4 \o i5 \o i6]

RECURSIVE CookieLoop(_, _)
CookieLoop(cookies, acc) ==
  IF Len(cookies) = 0 THEN acc
  ELSE CookieLoop(Tail(cookies), CookieStep(Head(cookies), acc))

checkSetCookie(headers) ==
  LET value == Lookup(headers, "set-cookie") IN
  IF Falsy(value)
  THEN Check("Set-Cookie", "pass", "info", <<>>, 5, 5, FALSE, <<>>)
  ELSE LET rawCookies == SplitCookies(value[1])
           cookies == [i \in 1..Len(rawCookies) |-> trim(rawCookies[i])]
           \* let score = 3, in halves
           acc == CookieLoop(cookies, [halves |-> 6, issues |-> <<>>])
           score == Clamp(RoundHalves(acc.halves), 5)
       IN
       IF Len(acc.issues) = 0
       THEN Check("Set-Cookie", "pass", "info", value, score, 5, FALSE,
                  acc.issues)
       ELSE Check("Set-Cookie", IF score >= 2 THEN "warn" ELSE "fail",
                  IF score >= 2 THEN "medium" ELSE "high",
                  value, score, 5, TRUE, acc.issues)

\* ALL_CHECKS.map(fn => fn(headers))
ALL_CHECKS(headers) ==
  << checkCSP(headers), checkHSTS(headers), checkXFrameOptions(headers),
     checkXContentTypeOptions(headers), checkPermissionsPolicy(headers),
     checkCOOP(headers), checkCOEP(headers), checkCORP(headers),
     checkReferrerPolicy(headers), checkXXSSProtection(headers),
     checkCacheControl(headers), checkSetCookie(headers),
     checkDNSPrefetchControl(headers) >>

(***************************************************************************)
(* Grading engine.                                                         *)
(***************************************************************************)
Grades == {"A+", "A", "B", "C", "D", "E", "F"}

RECURSIVE SumScore(_)
SumScore(checks) ==
  IF Len(checks) = 0 THEN 0 ELSE Head(checks).score + SumScore(Tail(checks))

\* the sum of maxScore over the checks whose header was sent only
RECURSIVE SumMaxScorePresent(_)
SumMaxScorePresent(checks) ==
  IF Len(checks) = 0 THEN 0
  ELSE (IF Head(checks).status = "missing" THEN 0 ELSE Head(checks).maxScore)
       + SumMaxScorePresent(Tail(checks))

RECURSIVE SumMaxScore(_)
SumMaxScore(checks) ==
  IF Len(checks) = 0 THEN 0
  ELSE Head(checks).maxScore + SumMaxScore(Tail(checks))

\* pct >= t, where pct = maxScore > 0 ? (totalScore / maxScore) * 100 : 0.
\* The scores are integers, so the comparison is decided exactly by
\* 100 * totalScore >= t * maxScore.
\* the comparison with > in place of >=
PctAbove(totalScore, maxScore, t) ==
  IF maxScore > 0 THEN 100 * totalScore > t * maxScore ELSE 0 > t

\* the comparison turned around: pct <= t
PctAtMost(totalScore, maxScore, t) ==
  IF maxScore > 0 THEN 100 * totalScore <= t * maxScore ELSE 0 <= t

PctAtLeast(totalScore, maxScore, t) ==
  IF maxScore > 0 THEN 100 * totalScore >= t * maxScore ELSE 0 >= t

calculateGrade(checks) ==
  LET totalScore == SumScore(checks)
      maxScore == SumMaxScore(checks)
      grade == IF PctAtLeast(totalScore, maxScore, 95) THEN "A+"
               ELSE IF PctAtLeast(totalScore, maxScore, 85) THEN "A"
               ELSE IF PctAtLeast(totalScore, maxScore, 70) THEN "B"
               ELSE IF PctAtLeast(totalScore, maxScore, 55) THEN "C"
               ELSE IF PctAtLeast(totalScore, maxScore, 40) THEN "D"
               ELSE IF PctAtLeast(totalScore, maxScore, 25) THEN "E"
               ELSE "F"
  IN [grade |-> grade, totalScore |-> totalScore, maxScore |-> maxScore]

GRADE_ORDER == <<"A+", "A", "B", "C", "D", "E", "F">>

\* GRADE_ORDER.indexOf(g): zero-based, -1 when g is not in the array
gradeIndex(g) ==
  IF SeqIncludes(GRADE_ORDER, g)
  THEN (CHOOSE i \in 1..Len(GRADE_ORDER) : GRADE_ORDER[i] = g) - 1
  ELSE -1

\* parseGrade without the conversion to upper case
parseGradeCaseSensitive(s) ==
  LET upper == trim(s)
      valid == <<"A+", "A", "B", "C", "D", "E", "F">>
  IN IF upper = "A+" THEN <<"A+">>
     ELSE IF SeqIncludes(valid, upper) THEN <<upper>> ELSE <<>>

\* <<>> is null, <<g>> the grade g
parseGrade(s) ==
  LET upper == trim(toUpperCase(s))
      valid == <<"A+", "A", "B", "C", "D", "E", "F">>
  IN IF upper = "A+" THEN <<"A+">>
     ELSE IF SeqIncludes(valid, upper) THEN <<upper>> ELSE <<>>

\* the comparison with < in place of <=
meetsMinGradeStrict(actual, minimum) ==
  gradeIndex(actual) < gradeIndex(minimum)

meetsMinGrade(actual, minimum) == gradeIndex(actual) <= gradeIndex(minimum)

(***************************************************************************)
(* Inputs: the responses a scanned server may give.                        *)
(***************************************************************************)
EmptyHeaders == [n \in {} |-> ""]

PerfectHeaders ==
  [n \in {"content-security-policy", "strict-transport-security",
          "x-frame-options", "x-content-type-options", "permissions-policy",
          "cross-origin-opener-policy", "cross-origin-embedder-policy",
          "cross-origin-resource-policy", "referrer-policy",
          "x-xss-protection", "cache-control", "x-dns-prefetch-control"} |->
     CASE n = "content-security-policy" ->
            "default-src 'none'; script-src 'nonce-abc'; style-src 'self'; img-src 'self'; frame-ancestors 'none'; base-uri 'self'; form-action 'self'; object-src 'none'; report-uri /csp"
       [] n = "strict-transport-security" ->
            "max-age=31536000; includeSubDomains; preload"
       [] n = "x-frame-options" -> "DENY"
       [] n = "x-content-type-options" -> "nosniff"
       [] n = "permissions-policy" ->
            "camera=(), microphone=(), geolocation=(), payment=()"
       [] n = "cross-origin-opener-policy" -> "same-origin"
       [] n = "cross-origin-embedder-policy" -> "require-corp"
       [] n = "cross-origin-resource-policy" -> "same-origin"
       [] n = "referrer-policy" -> "strict-origin-when-cross-origin"
       [] n = "x-xss-protection" -> "0"
       [] n = "cache-control" -> "no-store, no-cache, must-revalidate, private"
       [] n = "x-dns-prefetch-control" -> "off"]

TypicalHeaders ==
  [n \in {"content-security-policy", "strict-transport-security",
          "x-frame-options", "x-content-type-options", "referrer-policy"} |->
     CASE n = "content-security-policy" -> "default-src 'self'"
       [] n = "strict-transport-security" -> "max-age=31536000"
       [] n = "x-frame-options" -> "SAMEORIGIN"
       [] n = "x-content-type-options" -> "nosniff"
       [] n = "referrer-policy" -> "strict-origin-when-cross-origin"]

BaseResponses == {EmptyHeaders, PerfectHeaders, TypicalHeaders}

\* the values a server may send for each header
HeaderValues(n) ==
  CASE n = "content-security-policy" ->
         {"", "default-src 'self'",
          "default-src 'none'; script-src 'nonce-abc'; frame-ancestors 'none'; base-uri 'self'; form-action 'self'; object-src 'none'; report-to /csp",
          "default-src 'none'; frame-ancestors 'none'; base-uri 'self'; form-action 'self'; object-src 'none'",
          "default-src 'self' 'unsafe-inline' 'unsafe-eval'; script-src *; style-src 'unsafe-inline' *; img-src *",
          "script-src 'sha256-abc'; report-to /csp; Report-URI /r",
          "default-src 'self'; style-src 'unsafe-inline'; frame-ancestors 'self'; base-uri 'self'; form-action 'self'; object-src 'none'",
          "default-src 'self'; frame-ancestors 'none'; base-uri 'self'; form-action 'self'; object-src 'none'",
          " ; ;upgrade-insecure-requests"}
    [] n = "strict-transport-security" ->
         {"", "max-age=31536000; includeSubDomains; preload",
          "  MAX-AGE=63072000 ; includeSubDomains ; preload  ",
          "max-age=31536000", "max-age=86400", "max-age=0; includeSubDomains",
          "includeSubDomains; preload", "max-age=abc", "preload"}
    [] n = "x-frame-options" ->
         {"", "DENY", "sameorigin", " deny ", "ALLOW-FROM https://a.example",
          "ALLOWALL"}
    [] n = "x-content-type-options" -> {"", "nosniff", " NoSniff ", "sniff"}
    [] n = "permissions-policy" ->
         {"", "camera=(), microphone=(), geolocation=(), payment=()",
          "camera=()", "camera=*, microphone=*, geolocation=*, payment=*",
          "camera=(\"*\"), microphone=()", "fullscreen=(self)",
          "Camera=(), geolocation=(self)", "usb=()",
          "camera=(), microphone=()"}
    [] n = "cross-origin-opener-policy" ->
         {"", "same-origin", "Same-Origin", "same-origin-allow-popups",
          "unsafe-none", "bogus"}
    [] n = "cross-origin-embedder-policy" ->
         {"", "require-corp", "credentialless", "unsafe-none", "bogus"}
    [] n = "cross-origin-resource-policy" ->
         {"", "same-origin", "same-site", "cross-origin", "bogus"}
    [] n = "referrer-policy" ->
         {"", "strict-origin-when-cross-origin",
          "no-referrer, strict-origin-when-cross-origin", "origin",
          "unsafe-url", "no-referrer, unsafe-url", "Same-Origin ", "bogus",
          "no-referrer,", "unsafe-url, no-referrer",
          "no-referrer, bogus,  ORIGIN-when-cross-origin"}
    [] n = "x-xss-protection" -> {"", "0", "1; mode=block", "1", "2", " 0"}
    [] n = "cache-control" ->
         {"", "no-store", "no-store, no-cache, must-revalidate, private",
          "public, max-age=3600", "private", "public, s-maxage=600",
          "s-maxage=600", "s-maxage=0", "no-cache",
          "private, no-cache, must-revalidate", "No-Store, public",
          "max-age=0", "s-maxage=600, max-age=300", "private, s-maxage=600"}
    [] n = "set-cookie" ->
         {"", "a=b; Secure; HttpOnly; SameSite=Lax", "session=abc",
          "a=1, b=2, c=3", "a=b; SameSite=None",
          "a=1; Secure; HttpOnly; SameSite=Strict, b=2; Secure; HttpOnly; SameSite=Lax",
          "__Host-a=b; Secure; HttpOnly; SameSite=Strict",
          "__Secure-a=b; HttpOnly; SameSite=Lax",
          "a=b; Expires=Wed, 21 Oct 2026 07:28:00 GMT; Secure; HttpOnly; SameSite=Lax",
          "a=b; secure; HTTPONLY", "a=b; HttpOnly; SameSite = None"}
    [] n = "x-dns-prefetch-control" -> {"", "off", "on", "OFF ", "bogus"}

HeaderNameSet == {HeaderNames[i] : i \in 1..Len(HeaderNames)}

\* the header map h with key n set to v
WithHeader(h, n, v) ==
  [m \in DOMAIN h \cup {n} |-> IF m = n THEN v ELSE h[m]]

\* the header map h without key n
WithoutHeader(h, n) == [m \in DOMAIN h \ {n} |-> h[m]]

(***************************************************************************)
(* State.                                                                  *)
(***************************************************************************)
VARIABLES
  pc,          \* position of the modelled run
  headers,     \* the lower-cased header map of the response
  edits,       \* number of edits applied to the base response
  checks,      \* the HeaderCheck list (of a scan, or a synthetic one)
  result,      \* <<>> or <<r>>, r the record returned by calculateGrade
  mutations,   \* number of checks of the list rewritten so far
  gradeStr,    \* the string handed to parseGrade
  actual,      \* the grade handed to meetsMinGrade as actual
  parsed,      \* <<>> (null) or <<g>>: what parseGrade returned
  meets,       \* what meetsMinGrade returned
  targetUrls,  \* the URLs given on the command line
  opts,        \* the command line options: [ci, minGrade]
  next,        \* index of the next URL of the scan loop
  results,     \* the ScanResults pushed so far
  exitCode,    \* process.exitCode (0 while unset)
  printed,     \* whether a report was written to stdout
  exited,      \* -1 while the process runs, then its exit code
  given,       \* the header map as it was handed to the first checker call
  calls,       \* the checker calls made on it: [index, check], in call order
  sarif,       \* <<>> or <<d>>, d the document formatSARIF returned
  followRedirects, \* opts.followRedirects of the fetchHeaders call
  currentUrl,  \* currentUrl of fetchHeaders
  attempt,     \* the loop variable i of fetchHeaders
  redirectChain, \* redirectChain of fetchHeaders
  timers,      \* the attempts whose abort timer is set and not cleared
  requested,   \* the URLs handed to fetch, in request order
  received,    \* what each request came back with, in order of receipt
  outcome,     \* <<>> while fetchHeaders runs, then <<what it returned>>
  raised       \* <<>> or <<[checks, result]>>: a check list with raised
               \* scores and what calculateGrade returned for it

vars == <<pc, headers, edits, checks, result, mutations, gradeStr, actual,
          parsed, meets, targetUrls, opts, next, results, exitCode, printed,
          exited, given, calls, sarif, followRedirects, currentUrl, attempt,
          redirectChain, timers, requested, received, outcome, raised>>

scanVars == <<headers, edits>>
gradeVars == <<checks, result, mutations>>
opsVars == <<gradeStr, actual, parsed, meets>>
cliVars == <<targetUrls, opts, next, results, exitCode, printed, exited>>
runVars == <<given, calls>>
sarifVars == <<sarif>>
fetchVars == <<followRedirects, currentUrl, attempt, redirectChain, timers,
               requested, received, outcome>>
raiseVars == <<raised>>
auxVars == <<runVars, sarifVars, fetchVars, raiseVars>>

\* the call log of a run that does not call the checkers one by one
NoRun ==
  /\ given = EmptyHeaders
  /\ calls = <<>>

\* no SARIF document is written by a run that does not format one
NoSarif == sarif = <<>>

\* no second check list is graded by a run that compares no grades
NoRaise == raised = <<>>

\* the variables of fetchHeaders in a run that does not call it
NoFetch ==
  /\ followRedirects = TRUE
  /\ currentUrl = ""
  /\ attempt = 0
  /\ redirectChain = <<>>
  /\ timers = {}
  /\ requested = <<>>
  /\ received = <<>>
  /\ outcome = <<>>

\* the command line variables of a run that is not a command line run
NoCli ==
  /\ targetUrls = <<>>
  /\ opts = [ci |-> FALSE, minGrade |-> "C"]
  /\ next = 1
  /\ results = <<>>
  /\ exitCode = 0
  /\ printed = FALSE
  /\ exited = -1

(***************************************************************************)
(* Spec: one scan.  The server's response is a base response with up to    *)
(* MaxEdits headers set or removed; scanUrl runs the thirteen checkers on  *)
(* it and grades the list.                                                 *)
(***************************************************************************)
Init ==
  /\ pc = "response"
  /\ headers \in BaseResponses
  /\ edits = 0
  /\ checks = <<>>
  /\ result = <<>>
  /\ mutations = 0
  /\ gradeStr = ""
  /\ actual = "F"
  /\ parsed = <<>>
  /\ meets = FALSE
  /\ NoCli
  /\ NoRun
  /\ NoSarif
  /\ NoFetch
  /\ NoRaise

SetHeader ==
  /\ pc = "response"
  /\ edits < MaxEdits
  /\ \E n \in HeaderNameSet : \E v \in HeaderValues(n) :
        headers' = WithHeader(headers, n, v)
  /\ edits' = edits + 1
  /\ UNCHANGED <<auxVars, pc, gradeVars, opsVars, cliVars>>

RemoveHeader ==
  /\ pc = "response"
  /\ edits < MaxEdits
  /\ \E n \in DOMAIN headers : headers' = WithoutHeader(headers, n)
  /\ edits' = edits + 1
  /\ UNCHANGED <<auxVars, pc, gradeVars, opsVars, cliVars>>

\* scanUrl, after fetchHeaders has returned the header map
ScanUrl ==
  /\ pc = "response"
  /\ checks' = ALL_CHECKS(headers)
  /\ result' = <<calculateGrade(checks')>>
  /\ pc' = "scanned"
  /\ UNCHANGED <<auxVars, scanVars, mutations, opsVars, cliVars>>

Next == SetHeader \/ RemoveHeader \/ ScanUrl

Spec == Init /\ [][Next]_vars

(***************************************************************************)
(* SpecGrade: calculateGrade on the check lists the test suites build.     *)
(***************************************************************************)
CORE_HEADERS ==
  <<"Content-Security-Policy", "Strict-Transport-Security",
    "X-Frame-Options", "X-Content-Type-Options", "Referrer-Policy",
    "Permissions-Policy">>

BONUS_HEADERS ==
  <<"Cross-Origin-Opener-Policy", "Cross-Origin-Embedder-Policy",
    "Cross-Origin-Resource-Policy", "Cache-Control">>

\* coreCheck / bonusCheck of the scoring tests
presenceCheck(header, present) ==
  Check(header, IF present THEN "pass" ELSE "missing", "info",
        IF present THEN <<"x">> ELSE <<>>, IF present THEN 5 ELSE 0, 5,
        FALSE, <<>>)

makeChecks(corePresent, bonusPresent) ==
  [i \in 1..Len(CORE_HEADERS) |->
     presenceCheck(CORE_HEADERS[i], i <= corePresent)]
  \o [i \in 1..Len(BONUS_HEADERS) |->
        presenceCheck(BONUS_HEADERS[i], i <= bonusPresent)]

\* makeCheck of the percentage tests
makeCheck(score, maxScore) ==
  Check("Test", "pass", "info", <<"x">>, score, maxScore, FALSE, <<>>)

SyntheticLists ==
  {makeChecks(c, b) : c \in 0..Len(CORE_HEADERS), b \in 0..Len(BONUS_HEADERS)}
  \cup {<<makeCheck(sc, 100)>> : sc \in 0..100}
  \cup {<<makeCheck(5, 10), makeCheck(3, 10)>>, <<>>}

InitGrade ==
  /\ pc = "list"
  /\ checks \in SyntheticLists
  /\ result = <<>>
  /\ mutations = 0
  /\ headers = EmptyHeaders
  /\ edits = 0
  /\ gradeStr = ""
  /\ actual = "F"
  /\ parsed = <<>>
  /\ meets = FALSE
  /\ NoCli
  /\ NoRun
  /\ NoSarif
  /\ NoFetch
  /\ NoRaise

\* a test rewrites the status and the score of one check of its list
MutateCheck ==
  /\ pc = "list"
  /\ mutations < MaxMutations
  /\ \E i \in 1..Len(checks) : \E st \in {"warn", "fail"} :
       \E sc \in 0..Min(checks[i].maxScore, 5) :
          checks' = [checks EXCEPT ![i].status = st, ![i].score = sc]
  /\ mutations' = mutations + 1
  /\ UNCHANGED <<auxVars, pc, result, scanVars, opsVars, cliVars>>

CalcGrade ==
  /\ pc = "list"
  /\ result' = <<calculateGrade(checks)>>
  /\ pc' = "graded"
  /\ UNCHANGED <<auxVars, checks, mutations, scanVars, opsVars, cliVars>>

NextGrade == MutateCheck \/ CalcGrade

SpecGrade == InitGrade /\ [][NextGrade]_vars

(***************************************************************************)
(* SpecOps: parseGrade and meetsMinGrade, used as the CI gate uses them.   *)
(***************************************************************************)
GradeStrings ==
  {"A+", "A", "B", "C", "D", "E", "F", "a+", "a", "b", "c", "d", "e", "f",
   "", "X", "x", "G", "AA", "A +", "+A", "a-", " b ", "\tc", "a+ ", " ",
   "A+A", "pass"}

InitOps ==
  /\ pc = "args"
  /\ gradeStr \in GradeStrings
  /\ actual \in Grades
  /\ parsed = <<>>
  /\ meets = FALSE
  /\ headers = EmptyHeaders
  /\ edits = 0
  /\ checks = <<>>
  /\ result = <<>>
  /\ mutations = 0
  /\ NoCli
  /\ NoRun
  /\ NoSarif
  /\ NoFetch
  /\ NoRaise

\* parseGrade(opts.minGrade)
ParseMinGrade ==
  /\ pc = "args"
  /\ parsed' = parseGrade(gradeStr)
  /\ pc' = "parsed"
  /\ UNCHANGED <<auxVars, gradeStr, actual, meets, scanVars, gradeVars,
                 cliVars>>

\* meetsMinGrade(r.grade, parseGrade(opts.minGrade) ?? 'C')
CompareGrade ==
  /\ pc = "parsed"
  /\ meets' = meetsMinGrade(actual, IF parsed = <<>> THEN "C" ELSE parsed[1])
  /\ pc' = "compared"
  /\ UNCHANGED <<auxVars, gradeStr, actual, parsed, scanVars, gradeVars,
                 cliVars>>

NextOps == ParseMinGrade \/ CompareGrade

SpecOps == InitOps /\ [][NextOps]_vars

(***************************************************************************)
(* SpecCli: the action of main: the scan loop over the URLs, the report    *)
(* and the CI gate.  A run starts after the options are parsed, with at    *)
(* least one URL (with none, main prints the help text and scans nothing). *)
(***************************************************************************)
\* the servers of the modelled network: the header map each one answers
\* with, <<>> for a server whose fetch fails
Respond(url) ==
  CASE url = "https://perfect.example" -> <<PerfectHeaders>>
    [] url = "https://nocsp.example" ->
         <<WithoutHeader(PerfectHeaders, "content-security-policy")>>
    [] url = "http://plain.example" ->
         <<WithoutHeader(WithoutHeader(PerfectHeaders,
              "content-security-policy"), "strict-transport-security")>>
    [] url = "https://typical.example" -> <<TypicalHeaders>>
    [] url = "https://bare.example" -> <<EmptyHeaders>>
    [] OTHER -> <<>>

Urls ==
  {"https://perfect.example", "nocsp.example", "http://plain.example",
   "HTTPS://typical.example", "bare.example", "down.example"}

\* if (!/^https?:\/\//i.test(url)) url = `https://${url}`
WithProtocol(url) ==
  LET lower == toLowerCase(url) IN
  IF startsWith(lower, "http://") \/ startsWith(lower, "https://")
  THEN url ELSE "https://" \o url

\* the ScanResult scanUrl returns: the checks and calculateGrade of them
ScanResult(url, cs, g) ==
  [url |-> url, checks |-> cs, grade |-> g.grade,
   totalScore |-> g.totalScore, maxScore |-> g.maxScore]

\* scanUrl: <<>> when fetchHeaders throws, else <<the ScanResult>>.  Each
\* const of the function is bound once, in the order the code computes it.
scanUrl(u) ==
  CHOOSE scanned \in
    UNION {
      UNION {
        IF fetched = <<>> THEN {<<>>}
        ELSE UNION {
               {<<ScanResult(url, cs, g)>> : g \in {calculateGrade(cs)}}
               : cs \in {ALL_CHECKS(fetched[1])}}
        : fetched \in {Respond(toLowerCase(url))}}
      : url \in {WithProtocol(u)}} : TRUE

MinGradeOptions == {"C", "B", "a", "F", "d ", "bogus"}

RECURSIVE SeqsUpTo(_, _)
SeqsUpTo(S, n) ==
  IF n = 0 THEN {<<>>}
  ELSE LET shorter == SeqsUpTo(S, n - 1) IN
       shorter \cup {Append(q, x) : q \in shorter, x \in S}

InitCli ==
  /\ pc = "loop"
  /\ targetUrls \in SeqsUpTo(Urls, MaxUrls) \ {<<>>}
  /\ opts \in [ci : BOOLEAN, minGrade : MinGradeOptions]
  /\ next = 1
  /\ results = <<>>
  /\ exitCode = 0
  /\ printed = FALSE
  /\ exited = -1
  /\ headers = EmptyHeaders
  /\ edits = 0
  /\ checks = <<>>
  /\ result = <<>>
  /\ mutations = 0
  /\ gradeStr = ""
  /\ actual = "F"
  /\ parsed = <<>>
  /\ meets = FALSE
  /\ NoRun
  /\ NoSarif
  /\ NoFetch
  /\ NoRaise

\* the loop ended by the first scan that throws: the remaining URLs are not
\* scanned
ScanNextStopping ==
  /\ pc = "loop"
  /\ next <= Len(targetUrls)
  /\ \E scanned \in {scanUrl(targetUrls[next])} :
       IF scanned = <<>>
       THEN /\ exitCode' = 1
            /\ next' = Len(targetUrls) + 1
            /\ UNCHANGED results
       ELSE /\ results' = Append(results, scanned[1])
            /\ next' = next + 1
            /\ UNCHANGED exitCode
  /\ UNCHANGED <<auxVars, pc, targetUrls, opts, printed, exited, scanVars,
                 gradeVars, opsVars>>

\* one iteration of: for (const url of targetUrls) try { push } catch { }
ScanNext ==
  /\ pc = "loop"
  /\ next <= Len(targetUrls)
  /\ \E scanned \in {scanUrl(targetUrls[next])} :
       IF scanned = <<>>
       THEN /\ exitCode' = 1
            /\ UNCHANGED results
       ELSE /\ results' = Append(results, scanned[1])
            /\ UNCHANGED exitCode
  /\ next' = next + 1
  /\ UNCHANGED <<auxVars, pc, targetUrls, opts, printed, exited, scanVars,
                 gradeVars, opsVars>>

\* results.filter(r => !meetsMinGrade(r.grade, minGrade))
FailedResults(rs, minGrade) ==
  SelectSeq(rs, LAMBDA r : ~meetsMinGrade(r.grade, minGrade))

\* AfterLoop leaving the process through the CI gate alone: the exit code
\* set by a failed scan is dropped
AfterLoopGateOnly ==
  /\ pc = "loop"
  /\ next > Len(targetUrls)
  /\ pc' = "exited"
  /\ IF Len(results) = 0
     THEN /\ exited' = 1
          /\ UNCHANGED printed
     ELSE /\ printed' = TRUE
          /\ LET p == parseGrade(opts.minGrade)
                 minGrade == IF p = <<>> THEN "C" ELSE p[1]
                 failed == FailedResults(results, minGrade)
             IN IF opts.ci /\ Len(failed) > 0
                THEN exited' = 1
                ELSE exited' = 0
  /\ UNCHANGED <<auxVars, targetUrls, opts, next, results, exitCode, scanVars,
                 gradeVars, opsVars>>

\* the rest of the action after the loop, up to the end of the process
AfterLoop ==
  /\ pc = "loop"
  /\ next > Len(targetUrls)
  /\ pc' = "exited"
  /\ IF Len(results) = 0
     THEN /\ exited' = 1
          /\ UNCHANGED printed
     ELSE /\ printed' = TRUE
          /\ LET p == parseGrade(opts.minGrade)
                 minGrade == IF p = <<>> THEN "C" ELSE p[1]
                 failed == FailedResults(results, minGrade)
             IN IF opts.ci /\ Len(failed) > 0
                THEN exited' = 1
                ELSE exited' = exitCode
  /\ UNCHANGED <<auxVars, targetUrls, opts, next, results, exitCode, scanVars,
                 gradeVars, opsVars>>

NextCli == ScanNext \/ AfterLoop

SpecCli == InitCli /\ [][NextCli]_vars

(***************************************************************************)
(* SpecRun: calls of the checkers on one header map, in any order and any  *)
(* number of times up to MaxCalls: a call is either                        *)
(* ALL_CHECKS.map(fn => fn(headers)), as in scanUrl, or a single checker,  *)
(* as in the checker tests.                                                *)
(***************************************************************************)
\* ALL_CHECKS[i - 1](headers)
CheckerAt(i, hs) ==
  CASE i = 1 -> checkCSP(hs)
    [] i = 2 -> checkHSTS(hs)
    [] i = 3 -> checkXFrameOptions(hs)
    [] i = 4 -> checkXContentTypeOptions(hs)
    [] i = 5 -> checkPermissionsPolicy(hs)
    [] i = 6 -> checkCOOP(hs)
    [] i = 7 -> checkCOEP(hs)
    [] i = 8 -> checkCORP(hs)
    [] i = 9 -> checkReferrerPolicy(hs)
    [] i = 10 -> checkXXSSProtection(hs)
    [] i = 11 -> checkCacheControl(hs)
    [] i = 12 -> checkSetCookie(hs)
    [] i = 13 -> checkDNSPrefetchControl(hs)

\* the header map after a call of checker i that deletes the key it read
AfterCheckConsuming(hs, i) == WithoutHeader(hs, HeaderNames[i])

\* the header map after a call of checker i: a checker only reads
\* headers[HEADER] and never assigns to the map
AfterCheck(hs, i) == hs

\* the header map after the calls of checkers i..13, in catalog order
RECURSIVE AfterAll(_, _)
AfterAll(hs, i) ==
  IF i > Len(HeaderNames) THEN hs ELSE AfterAll(AfterCheck(hs, i), i + 1)

InitRun ==
  /\ pc = "calls"
  /\ given \in BaseResponses
  /\ headers = given
  /\ calls = <<>>
  /\ edits = 0
  /\ checks = <<>>
  /\ result = <<>>
  /\ mutations = 0
  /\ gradeStr = ""
  /\ actual = "F"
  /\ parsed = <<>>
  /\ meets = FALSE
  /\ NoCli
  /\ NoSarif
  /\ NoFetch
  /\ NoRaise

\* ALL_CHECKS.map(fn => fn(headers)); logged with index 0
CallAll ==
  /\ pc = "calls"
  /\ Len(calls) < MaxCalls
  /\ calls' = Append(calls, [index |-> 0, check |-> ALL_CHECKS(headers)])
  /\ headers' = AfterAll(headers, 1)
  /\ UNCHANGED <<pc, given, edits, gradeVars, opsVars, cliVars, sarifVars,
                 fetchVars, raiseVars>>

\* one call fn(headers) of one of the thirteen checkers
CallChecker ==
  /\ pc = "calls"
  /\ Len(calls) < MaxCalls
  /\ \E i \in 1..Len(HeaderNames) :
       /\ calls' = Append(calls, [index |-> i, check |-> CheckerAt(i, headers)])
       /\ headers' = AfterCheck(headers, i)
  /\ UNCHANGED <<pc, given, edits, gradeVars, opsVars, cliVars, sarifVars,
                 fetchVars, raiseVars>>

NextRun == CallAll \/ CallChecker

SpecRun == InitRun /\ [][NextRun]_vars

(***************************************************************************)
(* SpecSarif: formatSARIF on the ScanResult lists main may hand to it: the *)
(* results of scans and the results the reporter tests build.              *)
(***************************************************************************)
\* check.header.toLowerCase().replace(/[^a-z0-9]/g, '-')
RECURSIVE DashNonAlnum(_)
DashNonAlnum(s) ==
  IF Len(s) = 0 THEN ""
  ELSE IF Len(s) = 1
       THEN (IF PosIn(LowerAlpha, s) # 0 \/ IsDigit(s) THEN s ELSE "-")
  ELSE LET h == Len(s) \div 2 IN
       DashNonAlnum(SubSeq(s, 1, h)) \o DashNonAlnum(SubSeq(s, h + 1, Len(s)))

ruleIdOf(header) == DashNonAlnum(toLowerCase(header))

\* severityToLevel with status missing reported as a warning
severityToLevelMissingWarning(s) ==
  CASE s = "fail" -> "error"
    [] s \in {"warn", "missing"} -> "warning"
    [] s = "pass" -> "none"

severityToLevel(s) ==
  CASE s \in {"fail", "missing"} -> "error"
    [] s = "warn" -> "warning"
    [] s = "pass" -> "none"

\* the two loops filling allChecks: every check of every result, with the
\* url of its result
RECURSIVE allChecksOf(_)
allChecksOf(rs) ==
  IF rs = <<>> THEN <<>>
  ELSE [k \in 1..Len(Head(rs).checks) |->
          [check |-> Head(rs).checks[k], url |-> Head(rs).url]]
       \o allChecksOf(Tail(rs))

\* the values of ruleMap in insertion order: a rule per distinct id
RECURSIVE ruleMapOf(_, _)
ruleMapOf(all, acc) ==
  IF all = <<>> THEN acc
  ELSE LET id == ruleIdOf(Head(all).check.header) IN
       ruleMapOf(Tail(all),
                 IF \E k \in 1..Len(acc) : acc[k].id = id THEN acc
                 ELSE Append(acc, [id |-> id, desc |-> Head(all).check.header]))

\* one entry of runs[0].results; recommended: whether the message text
\* carries the "Recommendation:" part
sarifEntry(e) ==
  [ruleId |-> ruleIdOf(e.check.header),
   level |-> severityToLevel(e.check.status),
   recommended |-> e.check.hasRec,
   uri |-> e.url]

formatSARIF(rs) ==
  LET all == allChecksOf(rs)
      kept == SelectSeq(all, LAMBDA e : e.check.status # "pass")
  IN [version |-> "2.1.0",
      runs |-> <<[driver |-> "HeaderVet",
                  rules |-> ruleMapOf(all, <<>>),
                  results |-> [k \in 1..Len(kept) |-> sarifEntry(kept[k])]]>>]

\* makeScanResult of the reporter tests, with its url override
makeScanResult(url) ==
  [url |-> url,
   checks |-> <<Check("X-Content-Type-Options", "pass", "info", <<"nosniff">>,
                      5, 5, FALSE, <<>>),
                Check("Content-Security-Policy", "missing", "critical", <<>>,
                      0, 15, TRUE, <<>>)>>,
   grade |-> "D", totalScore |-> 5, maxScore |-> 20]

\* the ScanResults handed to the reporter: those of the scans that succeed
\* and those of the reporter tests
ReportInputs ==
  {scanUrl(u)[1] : u \in {v \in Urls : scanUrl(v) # <<>>}}
  \cup {makeScanResult(u) : u \in {"https://example.com", "https://other.com"}}

InitSarif ==
  /\ pc = "report"
  /\ results \in SeqsUpTo(ReportInputs, MaxUrls)
  /\ sarif = <<>>
  /\ targetUrls = <<>>
  /\ opts = [ci |-> FALSE, minGrade |-> "C"]
  /\ next = 1
  /\ exitCode = 0
  /\ printed = FALSE
  /\ exited = -1
  /\ headers = EmptyHeaders
  /\ edits = 0
  /\ checks = <<>>
  /\ result = <<>>
  /\ mutations = 0
  /\ gradeStr = ""
  /\ actual = "F"
  /\ parsed = <<>>
  /\ meets = FALSE
  /\ NoRun
  /\ NoFetch
  /\ NoRaise

\* console.log(formatSARIF(results))
FormatSarif ==
  /\ pc = "report"
  /\ sarif' = <<formatSARIF(results)>>
  /\ pc' = "reported"
  /\ UNCHANGED <<runVars, fetchVars, raiseVars, scanVars, gradeVars, opsVars,
                 cliVars>>

NextSarif == FormatSarif

SpecSarif == InitSarif /\ [][NextSarif]_vars

(***************************************************************************)
(* SpecFetch: one call of fetchHeaders.  Between two awaits the function   *)
(* runs without interruption, so a step of the model is the start of the   *)
(* call up to its first await fetch(...), or the settling of the awaited   *)
(* request with all that follows it up to the next await, the return or    *)
(* the throw.  A request is answered with any response of Responses, fails *)
(* (network error), or is aborted by its timer.                            *)
(***************************************************************************)
maxRedirects == 10

\* the URLs fetchHeaders is called with
FetchUrls == {"https://a.example/start", "http://b.example"}

\* a response as fetch delivers it (the names of a Headers object are in
\* lower case), NoResponse for a request that failed
Response(status, hdrs) == [status |-> status, headers |-> hdrs]

NoResponse == Response(0, EmptyHeaders)

Responses ==
  {Response(200, EmptyHeaders),
   Response(404, WithHeader(EmptyHeaders, "location", "/login")),
   Response(302, EmptyHeaders),
   Response(302, WithHeader(EmptyHeaders, "location", "")),
   Response(301, WithHeader(EmptyHeaders, "location", "/login")),
   Response(308, WithHeader(EmptyHeaders, "location",
                            "https://b.example/start"))}

\* headersToRecord: the header names are lower-cased
headersToRecord(h) ==
  [k \in {toLowerCase(n) : n \in DOMAIN h} |->
     h[CHOOSE n \in DOMAIN h : toLowerCase(n) = k]]

\* new URL(loc, base).href for a location that is an absolute path
ResolveUrl(loc, base) ==
  LET slash == IndexFrom(base, "/", indexOf(base, "://") + 3) IN
  (IF slash = 0 THEN base ELSE SubSeq(base, 1, slash - 1)) \o loc

\* the redirect test not asking whether redirects are followed
IsRedirectAlways(follow, status, hdrs) ==
  status >= 300 /\ status < 400 /\ ~Falsy(Lookup(hdrs, "location"))

\* followRedirects && res.status >= 300 && res.status < 400 &&
\* hdrs['location']
IsRedirect(follow, status, hdrs) ==
  follow /\ status >= 300 /\ status < 400 /\ ~Falsy(Lookup(hdrs, "location"))

\* the loop test letting an eleventh request through
LoopTestInclusive(i) == i <= maxRedirects

\* i < maxRedirects
LoopTest(i) == i < maxRedirects

\* the hop recorded with the URL the redirect leads to
HopOfTarget(url, status, hdrs) ==
  [url |-> IF startsWith(hdrs["location"], "http") THEN hdrs["location"]
           ELSE ResolveUrl(hdrs["location"], url),
   statusCode |-> status, headers |-> hdrs]

\* { url: currentUrl, statusCode: res.status, headers: hdrs }
Hop(url, status, hdrs) == [url |-> url, statusCode |-> status, headers |-> hdrs]

\* a timer that is never cleared
clearTimeoutNoop(ts, t) == ts

\* clearTimeout(timer): the timer is no longer pending
clearTimeout(ts, t) == ts \ {t}

\* what the call ends with: a FetchResult returned or an Error thrown
Returned(url, status, hdrs, chain) ==
  [kind |-> "returned", finalUrl |-> url, statusCode |-> status,
   headers |-> hdrs, redirectChain |-> chain, message |-> ""]

Thrown(message) ==
  [kind |-> "thrown", finalUrl |-> "", statusCode |-> 0,
   headers |-> EmptyHeaders, redirectChain |-> <<>>, message |-> message]

InitFetch ==
  /\ pc = "call"
  /\ followRedirects \in BOOLEAN
  /\ currentUrl \in FetchUrls
  /\ attempt = 0
  /\ redirectChain = <<>>
  /\ timers = {}
  /\ requested = <<>>
  /\ received = <<>>
  /\ outcome = <<>>
  /\ headers = EmptyHeaders
  /\ edits = 0
  /\ checks = <<>>
  /\ result = <<>>
  /\ mutations = 0
  /\ gradeStr = ""
  /\ actual = "F"
  /\ parsed = <<>>
  /\ meets = FALSE
  /\ NoCli
  /\ NoRun
  /\ NoSarif
  /\ NoRaise

\* the loop test of iteration i with pending timers ts: either the timer is
\* set and fetch(url) is awaited, or the loop ends and the call throws
EnterIteration(i, url, ts) ==
  IF LoopTest(i)
  THEN /\ timers' = ts \cup {i}
       /\ requested' = Append(requested, url)
       /\ pc' = "await"
       /\ UNCHANGED outcome
  ELSE /\ timers' = ts
       /\ outcome' = <<Thrown("Too many redirects")>>
       /\ pc' = "done"
       /\ UNCHANGED requested

\* the call up to its first await
StartFetch ==
  /\ pc = "call"
  /\ EnterIteration(attempt, currentUrl, timers)
  /\ UNCHANGED <<followRedirects, currentUrl, attempt, redirectChain, received,
                 runVars, sarifVars, raiseVars, scanVars, gradeVars, opsVars,
                 cliVars>>

\* the awaited fetch resolves with a response: a redirect is recorded and
\* the next iteration entered, any other response is returned; the finally
\* block clears the timer on both ways
FetchResolves ==
  /\ pc = "await"
  /\ \E res \in Responses :
       \E hdrs \in {headersToRecord(res.headers)} :
         /\ received' = Append(received, res)
         /\ IF IsRedirect(followRedirects, res.status, hdrs)
            THEN \E loc \in {hdrs["location"]} :
                   \E target \in {IF startsWith(loc, "http") THEN loc
                                  ELSE ResolveUrl(loc, currentUrl)} :
                     /\ redirectChain' =
                          Append(redirectChain, Hop(currentUrl, res.status, hdrs))
                     /\ currentUrl' = target
                     /\ attempt' = attempt + 1
                     /\ EnterIteration(attempt + 1, target,
                                       clearTimeout(timers, attempt))
            ELSE /\ outcome' =
                      <<Returned(currentUrl, res.status, hdrs, redirectChain)>>
                 /\ timers' = clearTimeout(timers, attempt)
                 /\ pc' = "done"
                 /\ UNCHANGED <<currentUrl, attempt, redirectChain, requested>>
  /\ UNCHANGED <<followRedirects, runVars, sarifVars, raiseVars, scanVars,
                 gradeVars, opsVars, cliVars>>

\* the awaited fetch rejects (network failure, invalid URL): the finally
\* block clears the timer and the error leaves fetchHeaders
FetchRejects ==
  /\ pc = "await"
  /\ received' = Append(received, NoResponse)
  /\ timers' = clearTimeout(timers, attempt)
  /\ outcome' = <<Thrown("fetch failed")>>
  /\ pc' = "done"
  /\ UNCHANGED <<followRedirects, currentUrl, attempt, redirectChain, requested,
                 runVars, sarifVars, raiseVars, scanVars, gradeVars, opsVars,
                 cliVars>>

\* the timer of the awaited request fires: controller.abort() makes the
\* fetch reject; the fired timer is no longer pending, clearing it in the
\* finally block changes nothing
TimerFires ==
  /\ pc = "await"
  /\ attempt \in timers
  /\ received' = Append(received, NoResponse)
  /\ timers' = clearTimeout(timers \ {attempt}, attempt)
  /\ outcome' = <<Thrown("This operation was aborted")>>
  /\ pc' = "done"
  /\ UNCHANGED <<followRedirects, currentUrl, attempt, redirectChain, requested,
                 runVars, sarifVars, raiseVars, scanVars, gradeVars, opsVars,
                 cliVars>>

NextFetch == StartFetch \/ FetchResolves \/ FetchRejects \/ TimerFires

SpecFetch == InitFetch /\ [][NextFetch]_vars

\* every request settles: it is answered, fails, or is aborted by its timer
\* after opts.timeout milliseconds
SpecFetchLive == SpecFetch /\ WF_vars(NextFetch)

(***************************************************************************)
(* SpecRaise: calculateGrade on two check lists, the second being the      *)
(* first with the scores of some checks raised, as the integration tests   *)
(* compare the result of a header set with that of a better one.           *)
(***************************************************************************)
\* the list cs with the score of each check of S raised by d, up to its
\* maxScore; header, status and maxScore stay
RaisedList(cs, S, d) ==
  [i \in 1..Len(cs) |->
     IF i \in S THEN [cs[i] EXCEPT !.score = Min(cs[i].score + d, cs[i].maxScore)]
     ELSE cs[i]]

\* the sets of at most three checks of a list of n
UpToThree(n) == {S \in SUBSET (1..n) : Cardinality(S) \in 1..3}

InitRaise ==
  /\ pc = "lists"
  /\ checks \in SyntheticLists
  /\ result = <<>>
  /\ raised = <<>>
  /\ mutations = 0
  /\ headers = EmptyHeaders
  /\ edits = 0
  /\ gradeStr = ""
  /\ actual = "F"
  /\ parsed = <<>>
  /\ meets = FALSE
  /\ NoCli
  /\ NoRun
  /\ NoSarif
  /\ NoFetch

\* calculateGrade(checks) of the first list
GradeGiven ==
  /\ pc = "lists"
  /\ result = <<>>
  /\ result' = <<calculateGrade(checks)>>
  /\ UNCHANGED <<pc, checks, mutations, raised, runVars, sarifVars, fetchVars,
                 scanVars, opsVars, cliVars>>

\* calculateGrade of a list with higher scores
GradeRaised ==
  /\ pc = "lists"
  /\ raised = <<>>
  /\ \E S \in UpToThree(Len(checks)) : \E d \in {1, 5} :
       \E cs \in {RaisedList(checks, S, d)} :
         /\ cs # checks
         /\ raised' = <<[checks |-> cs, result |-> calculateGrade(cs)]>>
  /\ UNCHANGED <<pc, checks, result, mutations, runVars, sarifVars, fetchVars,
                 scanVars, opsVars, cliVars>>

NextRaise == GradeGiven \/ GradeRaised

SpecRaise == InitRaise /\ [][NextRaise]_vars

(***************************************************************************)
(* Properties.                                                             *)
(***************************************************************************)
CoreHeaderSet == {CORE_HEADERS[i] : i \in 1..Len(CORE_HEADERS)}

\* number of core headers of a check list whose status is not missing
CorePresent(cs) ==
  Cardinality({i \in 1..Len(cs) :
                 cs[i].header \in CoreHeaderSet /\ cs[i].status # "missing"})

\* number of non-core checks of a check list whose status is pass
BonusPass(cs) ==
  Cardinality({i \in 1..Len(cs) :
                 cs[i].header \notin CoreHeaderSet /\ cs[i].status = "pass"})

\* the grades of the presence model for n present core headers
PresenceBand(n) ==
  CASE n >= 6 -> {"A+", "A"}
    [] n = 5 -> {"B"}
    [] n = 4 -> {"C"}
    [] n = 3 -> {"D"}
    [] n = 2 -> {"E"}
    [] OTHER -> {"F"}

\* position of a grade in the order A+ < A < B < C < D < E < F
Rank(g) ==
  CASE g = "A+" -> 1 [] g = "A" -> 2 [] g = "B" -> 3 [] g = "C" -> 4
    [] g = "D" -> 5 [] g = "E" -> 6 [] g = "F" -> 7

\* the upper and lower case spellings of a grade
Spellings(g) ==
  CASE g = "A+" -> {"A+", "a+"} [] g = "A" -> {"A", "a"}
    [] g = "B" -> {"B", "b"} [] g = "C" -> {"C", "c"}
    [] g = "D" -> {"D", "d"} [] g = "E" -> {"E", "e"}
    [] g = "F" -> {"F", "f"}

\* s is t with white space, if anything, before and after it
Padded(s, t) ==
  \E i \in 1..(Len(s) + 1) : \E j \in 0..Len(s) :
     /\ SubSeq(s, i, j) = t
     /\ \A k \in 1..Len(s) : (k < i \/ k > j) => IsSpace(CharAt(s, k))

\* C1: every HeaderCheck a scan returns has 0 <= score <= maxScore, a status
\* among pass/warn/fail/missing and a severity among
\* critical/high/medium/low/info; a scan returns thirteen of them.
C1_ValidChecks ==
  /\ pc = "scanned" => Len(checks) = 13
  /\ \A i \in 1..Len(checks) :
       /\ 0 <= checks[i].score
       /\ checks[i].score <= checks[i].maxScore
       /\ checks[i].status \in Statuses
       /\ checks[i].severity \in Severities

\* a scan of a policy whose penalties exceed the base score: the score is
\* held at 0
C1_Witness ==
  /\ pc = "scanned"
  /\ "content-security-policy" \in DOMAIN headers
  /\ Len(checks[1].issues) >= 8
  /\ checks[1].score = 0
  /\ checks[1].status = "fail"

\* C2 (as claimed): the grade is the band of the number of present core
\* headers: 6 gives A or A+, 5 B, 4 C, 3 D, 2 E, 1 or 0 F.
C2_GradeFromCorePresence ==
  pc = "graded" => result[1].grade \in PresenceBand(CorePresent(checks))

\* C3 (as claimed): with all six core headers present the grade is A+ if
\* and only if at least three non-core checks pass, and A otherwise.
C3_BonusGivesAPlus ==
  (pc = "graded" /\ CorePresent(checks) = 6) =>
     /\ result[1].grade = "A+" <=> BonusPass(checks) >= 3
     /\ BonusPass(checks) < 3 => result[1].grade = "A"

\* C4 (as claimed): rewriting a missing core check to warn or fail, with
\* any score, gives the grade of the band of one more present core header.
C4_WarnFailCountAsPresent ==
  pc = "graded" =>
    \A i \in 1..Len(checks) :
      (checks[i].header \in CoreHeaderSet /\ checks[i].status = "missing") =>
        \A st \in {"warn", "fail"} : \A sc \in 0..checks[i].maxScore :
          calculateGrade([checks EXCEPT ![i].status = st, ![i].score = sc]).grade
            \in PresenceBand(CorePresent(checks) + 1)

EffectiveMinGrade ==
  IF \E g \in Grades : \E sp \in Spellings(g) : Padded(opts.minGrade, sp)
  THEN CHOOSE g \in Grades : \E sp \in Spellings(g) : Padded(opts.minGrade, sp)
  ELSE "C"

AllResultsMeet ==
  \A i \in 1..Len(results) : Rank(results[i].grade) <= Rank(EffectiveMinGrade)

\* C6 (as claimed): in CI mode the exit code is 0 if every scan result's
\* grade meets the minimum grade, and 1 otherwise.
C6_ExitCodeFromResults ==
  (pc = "exited" /\ opts.ci) =>
     exited = IF AllResultsMeet THEN 0 ELSE 1

\* C6 (amended): in CI mode the exit code is 0 if every URL was scanned
\* and every scan result's grade meets the minimum grade, and 1 otherwise.
C6_ExitCodeFromScansAndResults ==
  (pc = "exited" /\ opts.ci) =>
     exited = IF Len(results) = Len(targetUrls) /\ AllResultsMeet
              THEN 0 ELSE 1

\* a CI run in which one URL could not be scanned and the result of the
\* other meets the minimum grade: the exit code is 1
C6_Witness ==
  /\ pc = "exited"
  /\ opts.ci
  /\ Len(targetUrls) = 2
  /\ Len(results) = 1
  /\ AllResultsMeet
  /\ printed
  /\ exited = 1

\* C7: meetsMinGrade(actual, minimum) is true exactly when actual is at the
\* same or an earlier position than minimum in A+ < A < B < C < D < E < F;
\* a grade meets itself.
C7_MeetsMinGrade ==
  pc = "compared" =>
    LET minimum == IF parsed = <<>> THEN "C" ELSE parsed[1] IN
    /\ meets <=> Rank(actual) <= Rank(minimum)
    /\ actual = minimum => meets

\* a grade compared with itself
C7_Witness ==
  /\ pc = "compared"
  /\ parsed = <<"E">>
  /\ actual = "E"
  /\ meets

\* C8 (as claimed): parseGrade returns g for g in upper or lower case and
\* null for every other string.
C8_ParseGradeExact ==
  pc # "args" =>
    /\ \A g \in Grades : gradeStr \in Spellings(g) => parsed = <<g>>
    /\ (\A g \in Grades : gradeStr \notin Spellings(g)) => parsed = <<>>

\* C8 (amended): parseGrade returns g for g in upper or lower case, with or
\* without white space around it, and null for every other string.
C8_ParseGradeTrimmed ==
  pc # "args" =>
    /\ \A g \in Grades :
         (\E sp \in Spellings(g) : Padded(gradeStr, sp)) => parsed = <<g>>
    /\ (\A g \in Grades : \A sp \in Spellings(g) : ~Padded(gradeStr, sp))
         => parsed = <<>>

\* a lower case grade between blanks is parsed
C8_Witness ==
  /\ pc = "parsed"
  /\ gradeStr = " b "
  /\ parsed = <<"B">>

\* the status the claim expects of checker i when its header has no key
AbsentStatusClaimed(i) ==
  IF HeaderNames[i] \in {"x-xss-protection", "set-cookie"}
  THEN "pass" ELSE "missing"

\* C9 (as claimed): a checker whose header has no key in the map returns
\* missing, except X-XSS-Protection and Set-Cookie, which return pass.
C9_AbsentIsMissing ==
  pc = "scanned" =>
    \A i \in 1..Len(HeaderNames) :
      HeaderNames[i] \notin DOMAIN headers =>
        checks[i].status = AbsentStatusClaimed(i)

\* C9 (amended): ... and except X-DNS-Prefetch-Control, which returns warn.
C9_AbsentIsMissingOrAdvisory ==
  pc = "scanned" =>
    \A i \in 1..Len(HeaderNames) :
      HeaderNames[i] \notin DOMAIN headers =>
        checks[i].status =
          IF HeaderNames[i] = "x-dns-prefetch-control" THEN "warn"
          ELSE AbsentStatusClaimed(i)

\* the scan of a response without any header
C9_Witness ==
  /\ pc = "scanned"
  /\ DOMAIN headers = {}
  /\ checks[1].status = "missing"
  /\ checks[10].status = "pass"
  /\ checks[12].status = "pass"
  /\ checks[13].status = "warn"

\* the maxScore of each entry of the catalog
CatalogMaxScore == <<15, 10, 5, 5, 5, 5, 5, 5, 5, 5, 5, 5, 3>>

\* C10: whatever the header map, check i of a scan has the maxScore of the
\* catalog, and the thirteen sum to 78.
C10_MaxScoreIs78 ==
  pc = "scanned" =>
    /\ \A i \in 1..Len(checks) : checks[i].maxScore = CatalogMaxScore[i]
    /\ result[1].maxScore = 78

\* a scan of a response that carries a value for each of the 13 headers
C10_Witness ==
  /\ pc = "scanned"
  /\ DOMAIN headers = HeaderNameSet
  /\ result[1].maxScore = 78
  /\ result[1].totalScore < 78

\* the sum of f over the index set S
RECURSIVE SumOver(_, _)
SumOver(f, S) ==
  IF S = {} THEN 0
  ELSE LET i == CHOOSE j \in S : TRUE IN f[i] + SumOver(f, S \ {i})

\* C11: calculateGrade returns totalScore equal to the sum of the checks'
\* score and maxScore equal to the sum of the checks' maxScore; for the
\* empty list both are 0 and the grade is F.
C11_TotalsAreSums ==
  pc = "graded" =>
    /\ result[1].totalScore =
         SumOver([i \in 1..Len(checks) |-> checks[i].score], 1..Len(checks))
    /\ result[1].maxScore =
         SumOver([i \in 1..Len(checks) |-> checks[i].maxScore],
                 1..Len(checks))
    /\ checks = <<>> =>
         result[1] = [grade |-> "F", totalScore |-> 0, maxScore |-> 0]

\* makeChecks(3, 2) graded: 25 of 50, with five checks missing
C11_Witness ==
  /\ pc = "graded"
  /\ checks = makeChecks(3, 2)
  /\ result[1].totalScore = 25
  /\ result[1].maxScore = 50

\* the header field of the HeaderCheck of each entry of the catalog
CatalogHeader ==
  <<"Content-Security-Policy", "Strict-Transport-Security", "X-Frame-Options",
    "X-Content-Type-Options", "Permissions-Policy",
    "Cross-Origin-Opener-Policy", "Cross-Origin-Embedder-Policy",
    "Cross-Origin-Resource-Policy", "Referrer-Policy", "X-XSS-Protection",
    "Cache-Control", "Set-Cookie", "X-DNS-Prefetch-Control">>

HeaderCheckFields ==
  {"header", "status", "severity", "value", "score", "maxScore", "hasRec",
   "issues"}

\* the scores of the checks of the recommended configuration
RecommendedScore == <<10, 10, 5, 5, 5, 5, 5, 5, 5, 5, 5, 5, 3>>

\* C12: every checker is total: for every header map, the empty map and
\* maps with malformed values included, the scan holds exactly one
\* HeaderCheck of each checker, in catalog order; a value that is sent and
\* not empty is reported back with a verdict of pass, warn or fail, and no
\* value scores above the recommended configuration.
C12_CheckersTotal ==
  pc = "scanned" =>
    /\ Len(checks) = Len(HeaderNames)
    /\ \A i \in 1..Len(checks) :
         /\ DOMAIN checks[i] = HeaderCheckFields
         /\ checks[i].header = CatalogHeader[i]
         /\ checks[i].status \in Statuses
         /\ checks[i].score \in 0..checks[i].maxScore
         /\ checks[i].score <= RecommendedScore[i]
         /\ headers = PerfectHeaders => checks[i].score = RecommendedScore[i]
         /\ (HeaderNames[i] \in DOMAIN headers /\ headers[HeaderNames[i]] # "")
              => /\ checks[i].value = <<headers[HeaderNames[i]]>>
                 /\ checks[i].status \in {"pass", "warn", "fail"}
         /\ (HeaderNames[i] \notin DOMAIN headers
              \/ headers[HeaderNames[i]] = "") => checks[i].value = <<>>

\* a scan of a response whose Strict-Transport-Security value has no
\* number after max-age=: the value is scored, not refused
C12_Witness ==
  /\ pc = "scanned"
  /\ "strict-transport-security" \in DOMAIN headers
  /\ headers["strict-transport-security"] = "max-age=abc"
  /\ checks[2].value = <<"max-age=abc">>
  /\ checks[2].status = "fail"
  /\ checks[2].score = 3

LastToken(v) ==
  LET commas == {i \in 1..Len(v) : CharAt(v, i) = ","}
      from == IF commas = {} THEN 1
              ELSE (CHOOSE i \in commas : \A j \in commas : j <= i) + 1
  IN toLowerCase(trim(SubSeq(v, from, Len(v))))

\* the verdict claimed for a Referrer-Policy token
TokenVerdict(tok) ==
  IF tok \in {"no-referrer", "strict-origin",
              "strict-origin-when-cross-origin", "same-origin"}
  THEN [status |-> "pass", score |-> 5]
  ELSE IF tok \in {"origin", "origin-when-cross-origin"}
  THEN [status |-> "warn", score |-> 3]
  ELSE [status |-> "fail", score |-> 1]

\* C14: for a Referrer-Policy value that is sent and not empty, the status
\* and the score are those of its last comma-separated token, trimmed and in
\* lower case: secure pass/5, weak warn/3, unsafe or unrecognized fail/1,
\* whatever tokens precede it.
C14_LastTokenDecides ==
  (pc = "scanned" /\ "referrer-policy" \in DOMAIN headers
     /\ headers["referrer-policy"] # "") =>
    LET verdict == TokenVerdict(LastToken(headers["referrer-policy"])) IN
    /\ checks[9].status = verdict.status
    /\ checks[9].score = verdict.score
    /\ checks[9].maxScore = 5

\* an unsafe policy followed by a secure one passes
C14_Witness ==
  /\ pc = "scanned"
  /\ "referrer-policy" \in DOMAIN headers
  /\ headers["referrer-policy"] = "unsafe-url, no-referrer"
  /\ checks[9].status = "pass"
  /\ checks[9].score = 5

\* C15 (as claimed): when the content-security-policy key is present with
\* the empty string as its value, checkCSP does not return status missing,
\* and its score is at most 8.
C15_EmptyCSPIsPresent ==
  (pc = "scanned" /\ "content-security-policy" \in DOMAIN headers
     /\ headers["content-security-policy"] = "") =>
    /\ checks[1].status # "missing"
    /\ checks[1].score <= 8

\* no issue is recorded for the policy v: the five directives that are
\* asked for are there, no directive lists 'unsafe-inline', 'unsafe-eval'
\* or *, and the script sources (script-src, else default-src) are empty,
\* hold 'none', or hold a nonce or a hash
CSPClean(v) ==
  LET ds == parseDirectives(v)
      names == {ds[i].name : i \in 1..Len(ds)}
      ValsOf(n) ==
        UNION {{ds[i].vals[j] : j \in 1..Len(ds[i].vals)} :
                 i \in {k \in 1..Len(ds) : ds[k].name = n}}
      allVals == UNION {ValsOf(n) : n \in names}
      scriptVals == IF "script-src" \in names THEN ValsOf("script-src")
                    ELSE IF "default-src" \in names THEN ValsOf("default-src")
                    ELSE {}
  IN /\ {"default-src", "frame-ancestors", "base-uri", "form-action",
          "object-src"} \subseteq names
     /\ allVals \cap {"'unsafe-inline'", "'unsafe-eval'", "*"} = {}
     /\ \/ scriptVals = {}
        \/ "'none'" \in scriptVals
        \/ \E x \in scriptVals :
              \/ startsWith(x, "'nonce-") \/ startsWith(x, "'sha256-")
              \/ startsWith(x, "'sha384-") \/ startsWith(x, "'sha512-")

\* C16: for a Content-Security-Policy value that is sent and not empty,
\* checkCSP returns pass exactly when no issue, the nonce/hash note
\* included, was recorded; otherwise warn with severity medium when the
\* clamped score is at least 7, and fail with severity high when it is
\* below 7.
C16_CSPVerdict ==
  (pc = "scanned" /\ "content-security-policy" \in DOMAIN headers
     /\ headers["content-security-policy"] # "") =>
    LET c == checks[1]
        clean == CSPClean(headers["content-security-policy"])
    IN /\ c.status = "pass" <=> clean
       /\ Len(c.issues) = 0 <=> clean
       /\ ~clean =>
            IF c.score >= 7
            THEN c.status = "warn" /\ c.severity = "medium"
            ELSE c.status = "fail" /\ c.severity = "high"

\* a policy whose one issue is the nonce/hash note: score 8, yet warn
C16_Witness ==
  /\ pc = "scanned"
  /\ "content-security-policy" \in DOMAIN headers
  /\ checks[1].issues = <<"Consider using nonce-based or hash-based CSP">>
  /\ checks[1].score = 8
  /\ checks[1].status = "warn"
  /\ checks[1].severity = "medium"

\* C17: for a Strict-Transport-Security value that is sent and not empty,
\* the score is 6, minus 3 if no max-age=<digits> is found, else minus 2 if
\* max-age < 31536000 and plus 1 otherwise, plus 2 if includeSubDomains
\* occurs, plus 1 if preload occurs, clamped to [0,10]; the status is pass
\* only when max-age >= 31536000 and both words occur (score 10), otherwise
\* warn if the score is at least 6 and fail if it is below 6.
C17_HSTSScore ==
  (pc = "scanned" /\ "strict-transport-security" \in DOMAIN headers
     /\ headers["strict-transport-security"] # "") =>
    LET lower == toLowerCase(headers["strict-transport-security"])
        found == matchKeyDigits(lower, "max-age=")
        longEnough == found # <<>> /\ parseInt(found[1]) >= 31536000
        sub == includes(lower, "includesubdomains")
        pre == includes(lower, "preload")
        raw == 6 + (IF found = <<>> THEN -3 ELSE IF longEnough THEN 1 ELSE -2)
                 + (IF sub THEN 2 ELSE 0) + (IF pre THEN 1 ELSE 0)
        score == IF raw < 0 THEN 0 ELSE IF raw > 10 THEN 10 ELSE raw
    IN /\ checks[2].score = score
       /\ checks[2].status =
            IF longEnough /\ sub /\ pre THEN "pass"
            ELSE IF score >= 6 THEN "warn" ELSE "fail"
       /\ checks[2].status = "pass" => checks[2].score = 10

\* a short max-age with includeSubDomains: 6 - 2 + 2 = 6, the lowest warn
C17_Witness ==
  /\ pc = "scanned"
  /\ "strict-transport-security" \in DOMAIN headers
  /\ headers["strict-transport-security"] = "max-age=0; includeSubDomains"
  /\ checks[2].score = 6
  /\ checks[2].status = "warn"

\* the sensitive features that the policy v does not restrict with
\* feature=()
Unrestricted(v) ==
  {f \in {"camera", "microphone", "geolocation", "payment"} :
     ~includes(toLowerCase(v), f \o "=()")}

\* C18 (as claimed): for a Permissions-Policy value that is sent, not empty
\* and does not restrict every one of camera, microphone, geolocation and
\* payment with feature=(), the status is warn and the message names each
\* of those features that is not restricted.
C18_UnrestrictedWarns ==
  (pc = "scanned" /\ "permissions-policy" \in DOMAIN headers
     /\ headers["permissions-policy"] # ""
     /\ Unrestricted(headers["permissions-policy"]) # {}) =>
    /\ checks[5].status = "warn"
    /\ \A f \in Unrestricted(headers["permissions-policy"]) :
         \E k \in 1..Len(checks[5].issues) : includes(checks[5].issues[k], f)

\* the attributes of a cookie: what follows its first ';', split at ';',
\* trimmed and in lower case
CookieAttrs(cookie) ==
  LET parts == split(cookie, ";") IN
  {toLowerCase(trim(parts[i])) : i \in 2..Len(parts)}

HasSameSiteAttr(cookie) ==
  \E a \in CookieAttrs(cookie) : startsWith(a, "samesite")

\* the cookie carries a SameSite attribute whose value is None
IsSameSiteNone(cookie) ==
  \E a \in CookieAttrs(cookie) :
     startsWith(a, "samesite") /\ stripWs(a) = "samesite=none"

\* twice what C19 says a cookie costs
CookiePenalty(cookie) ==
  (IF "secure" \in CookieAttrs(cookie) THEN 0 ELSE 2)
  + (IF "httponly" \in CookieAttrs(cookie) THEN 0 ELSE 2)
  + (IF HasSameSiteAttr(cookie) THEN 0 ELSE 1)
  + (IF IsSameSiteNone(cookie) /\ "secure" \notin CookieAttrs(cookie)
     THEN 2 ELSE 0)

\* nothing is noted about the cookie: it has Secure, HttpOnly and SameSite,
\* and Path=/ if its name begins with __Host-
CookieIssueFree(cookie) ==
  /\ "secure" \in CookieAttrs(cookie)
  /\ "httponly" \in CookieAttrs(cookie)
  /\ HasSameSiteAttr(cookie)
  /\ startsWith(CookieName(cookie), "__Host-") =>
       \E a \in CookieAttrs(cookie) : startsWith(stripWs(a), "path=/")

\* C19: for a Set-Cookie value that is sent and not empty, one score starts
\* at 3 for the whole header and loses, for each cookie, 1 for a missing
\* Secure, 1 for a missing HttpOnly, 0.5 for a missing SameSite and 1 for
\* SameSite=None without Secure; it is rounded and clamped to [0,5], so it
\* never exceeds 3; the status is pass exactly when no issue was recorded
\* for any cookie, otherwise warn if the score is at least 2 and fail if it
\* is below 2.
C19_CookieScore ==
  (pc = "scanned" /\ "set-cookie" \in DOMAIN headers
     /\ headers["set-cookie"] # "") =>
    LET raw == SplitCookies(headers["set-cookie"])
        cookie == [i \in 1..Len(raw) |-> trim(raw[i])]
        halves == 6 - SumOver([i \in 1..Len(raw) |-> CookiePenalty(cookie[i])],
                              1..Len(raw))
        rounded == (halves + 1) \div 2
        score == IF rounded < 0 THEN 0 ELSE IF rounded > 5 THEN 5 ELSE rounded
        clean == \A i \in 1..Len(raw) : CookieIssueFree(cookie[i])
    IN /\ checks[12].score = score
       /\ checks[12].score <= 3
       /\ checks[12].status = "pass" <=> clean
       /\ Len(checks[12].issues) = 0 <=> clean
       /\ ~clean => checks[12].status = IF score >= 2 THEN "warn" ELSE "fail"

\* three cookies without attributes share the one score: 3 - 3 * 2.5, held
\* at 0
C19_Witness ==
  /\ pc = "scanned"
  /\ "set-cookie" \in DOMAIN headers
  /\ headers["set-cookie"] = "a=1, b=2, c=3"
  /\ Len(checks[12].issues) = 9
  /\ checks[12].score = 0
  /\ checks[12].status = "fail"

\* C20: for a Cache-Control value that is sent and not empty, the status is
\* pass exactly when no issue was recorded (no public without no-store, and
\* no s-maxage=N with N > 0 while neither private nor no-store occurs) and
\* the rounded, clamped score (2, plus 2 for no-store or else minus 1 for
\* public, plus 1 for private, plus 0.5 each for no-cache and
\* must-revalidate) is at least 4; otherwise warn if the score is at least
\* 3 and fail if it is below 3.
C20_CacheVerdict ==
  (pc = "scanned" /\ "cache-control" \in DOMAIN headers
     /\ headers["cache-control"] # "") =>
    LET lower == toLowerCase(headers["cache-control"])
        Has(word) == includes(lower, word)
        shared == matchKeyDigits(lower, "s-maxage=")
        noIssue ==
          /\ ~(Has("public") /\ ~Has("no-store"))
          /\ ~(shared # <<>> /\ parseInt(shared[1]) > 0
                /\ ~Has("private") /\ ~Has("no-store"))
        halves == 4 + (IF Has("no-store") THEN 4
                       ELSE IF Has("public") THEN -2 ELSE 0)
                    + (IF Has("private") THEN 2 ELSE 0)
                    + (IF Has("no-cache") THEN 1 ELSE 0)
                    + (IF Has("must-revalidate") THEN 1 ELSE 0)
        rounded == (halves + 1) \div 2
        score == IF rounded < 0 THEN 0 ELSE IF rounded > 5 THEN 5 ELSE rounded
    IN /\ checks[11].score = score
       /\ Len(checks[11].issues) = 0 <=> noIssue
       /\ checks[11].status =
            IF noIssue /\ score >= 4 THEN "pass"
            ELSE IF score >= 3 THEN "warn" ELSE "fail"

\* private alone: no issue, but a score of 3 only, so warn
C20_Witness ==
  /\ pc = "scanned"
  /\ "cache-control" \in DOMAIN headers
  /\ headers["cache-control"] = "private"
  /\ checks[11].issues = <<>>
  /\ checks[11].score = 3
  /\ checks[11].status = "warn"

\* the positions <<r, c>> of the checks of the results whose status is not
\* pass
NonPassPositions ==
  {p \in UNION {{<<r, c>> : c \in 1..Len(results[r].checks)} :
                  r \in 1..Len(results)} :
     results[p[1]].checks[p[2]].status # "pass"}

\* position p comes no later than q in the order of the results and of
\* their checks
NoLater(p, q) == p[1] < q[1] \/ (p[1] = q[1] /\ p[2] <= q[2])

\* the k-th non-pass position
NonPassAt(k) ==
  CHOOSE p \in NonPassPositions :
    Cardinality({q \in NonPassPositions : NoLater(q, p)}) = k

\* C21: the document formatSARIF returns has exactly one run; its results
\* hold one entry per check whose status is not pass, over all the given
\* scan results and in their order, and none for a pass check; the level of
\* an entry is error for fail and missing and warning for warn.
C21_SarifResults ==
  sarif # <<>> =>
    /\ Len(sarif[1].runs) = 1
    /\ Len(sarif[1].runs[1].results) = Cardinality(NonPassPositions)
    /\ \A k \in 1..Len(sarif[1].runs[1].results) :
         LET e == sarif[1].runs[1].results[k]
             c == results[NonPassAt(k)[1]].checks[NonPassAt(k)[2]]
         IN /\ e.ruleId = ruleIdOf(c.header)
            /\ e.uri = results[NonPassAt(k)[1]].url
            /\ c.status \in {"fail", "missing"} => e.level = "error"
            /\ c.status = "warn" => e.level = "warning"
            /\ e.level \in {"error", "warning"}

\* a document was written for two results holding pass, warn, fail and
\* missing checks
C21_Witness ==
  /\ sarif # <<>>
  /\ Len(results) = 2
  /\ \A st \in Statuses :
       \E r \in 1..Len(results) : \E c \in 1..Len(results[r].checks) :
         results[r].checks[c].status = st
  /\ \E k \in 1..Len(sarif[1].runs[1].results) :
       sarif[1].runs[1].results[k].level = "warning"
  /\ \E k \in 1..Len(sarif[1].runs[1].results) :
       sarif[1].runs[1].results[k].level = "error"

\* the response is a 3xx carrying a Location header with a value (an empty
\* Location value is no redirect target: hdrs['location'] is falsy)
RedirectResponse(res) ==
  /\ res.status \in 300..399
  /\ "location" \in DOMAIN res.headers
  /\ res.headers["location"] # ""

\* C22: a call of fetchHeaders ends once each of its requests is answered
\* or fails; it makes at most 10 requests, and when redirects are followed
\* and all 10 responses are 3xx with a Location it throws "Too many
\* redirects" and returns no result.
C22_FetchTerminates ==
  /\ [](Len(requested) <= 10)
  /\ []((/\ followRedirects
         /\ Len(received) = 10
         /\ \A k \in 1..10 : RedirectResponse(received[k]))
        => /\ pc = "done"
           /\ outcome # <<>>
           /\ outcome[1].kind = "thrown"
           /\ outcome[1].message = "Too many redirects")
  /\ <>(pc = "done" /\ outcome # <<>>)

\* ten requests were made, each answered by a redirect, and the call threw
C22_Witness ==
  /\ pc = "done"
  /\ followRedirects
  /\ Len(requested) = 10
  /\ Len(received) = 10
  /\ \A k \in 1..10 : RedirectResponse(received[k])
  /\ outcome # <<>>
  /\ outcome[1].kind = "thrown"

\* the header record rec holds the headers of response res
SameHeaders(rec, res) ==
  /\ DOMAIN rec = DOMAIN res.headers
  /\ \A n \in DOMAIN res.headers : rec[n] = res.headers[n]

\* the requests answered by a redirect before the last response
RedirectsBeforeLast ==
  {k \in 1..(Len(received) - 1) : RedirectResponse(received[k])}

\* the j-th request of the set S of requests, in the order of receipt
RedirectAt(S, j) ==
  CHOOSE k \in S : Cardinality({m \in S : m <= k}) = j

\* C23: when fetchHeaders returns, redirectChain holds exactly the 3xx
\* responses with a Location received before the final response, in the
\* order of receipt, each with the URL that was requested; finalUrl is the
\* URL of the last request, statusCode and headers are those of the last
\* response.
C23_ChainAndFinal ==
  (outcome # <<>> /\ outcome[1].kind = "returned") =>
    \A S \in {RedirectsBeforeLast} :
      /\ Len(requested) = Len(received)
      /\ Len(outcome[1].redirectChain) = Cardinality(S)
      /\ \A j \in 1..Len(outcome[1].redirectChain) :
           \A k \in {RedirectAt(S, j)} :
             /\ outcome[1].redirectChain[j].url = requested[k]
             /\ outcome[1].redirectChain[j].statusCode = received[k].status
             /\ SameHeaders(outcome[1].redirectChain[j].headers, received[k])
      /\ outcome[1].finalUrl = requested[Len(requested)]
      /\ outcome[1].statusCode = received[Len(received)].status
      /\ SameHeaders(outcome[1].headers, received[Len(received)])

\* a call returned after two redirects to different URLs
C23_Witness ==
  /\ outcome # <<>>
  /\ outcome[1].kind = "returned"
  /\ Len(outcome[1].redirectChain) = 2
  /\ outcome[1].redirectChain[1].url # outcome[1].redirectChain[2].url
  /\ outcome[1].finalUrl # outcome[1].redirectChain[2].url
  /\ outcome[1].statusCode = 404

\* C24: a call with followRedirects false makes exactly one request and
\* returns its response as the final result with an empty redirectChain,
\* also when the response is a 3xx with a Location.
C24_NoFollowOneRequest ==
  ~followRedirects =>
    /\ Len(requested) <= 1
    /\ pc # "call" => Len(requested) = 1
    /\ (pc = "done" /\ received[1] # NoResponse) =>
         /\ Len(received) = 1
         /\ outcome # <<>>
         /\ outcome[1].kind = "returned"
         /\ outcome[1].redirectChain = <<>>
         /\ outcome[1].finalUrl = requested[1]
         /\ outcome[1].statusCode = received[1].status
         /\ SameHeaders(outcome[1].headers, received[1])

\* a call that does not follow redirects returned a 3xx with a Location
C24_Witness ==
  /\ ~followRedirects
  /\ pc = "done"
  /\ Len(requested) = 1
  /\ RedirectResponse(received[1])
  /\ outcome[1].kind = "returned"
  /\ outcome[1].statusCode = 301
  /\ outcome[1].redirectChain = <<>>

\* C30: the abort timer of a request attempt is cleared on every way out
\* of the attempt (response returned, redirect followed, fetch failed):
\* while a request is awaited the only pending timer is its own, and none
\* is pending when the call has ended.
C30_TimersCleared ==
  /\ pc = "await" => timers \subseteq {attempt}
  /\ pc = "done" => timers = {}
  /\ pc = "call" => timers = {}

\* a call that followed two redirects has ended with no timer pending
C30_Witness ==
  /\ pc = "done"
  /\ Len(requested) = 3
  /\ attempt = 2
  /\ timers = {}
  /\ outcome # <<>>

\* the scan of URL u throws: the server of the URL gives no response
ScanThrows(u) == Respond(toLowerCase(WithProtocol(u))) = <<>>

\* the URLs among the first n of the command line whose scan succeeds, in
\* the given order
ScannedOk(n) ==
  SelectSeq(SubSeq(targetUrls, 1, n), LAMBDA u : ~ScanThrows(u))

\* C25: a URL whose scan throws does not stop the scan loop: the remaining
\* URLs are scanned in the given order and the failed URL adds no result;
\* the process exits with code 1 whenever a URL failed, also when every
\* result meets the minimum grade; when no URL gave a result it exits with
\* code 1 and prints no report.
C25_FailedScanGoesOn ==
  /\ \A ok \in {ScannedOk(next - 1)} :
       /\ Len(results) = Len(ok)
       /\ \A k \in 1..Len(ok) : results[k].url = WithProtocol(ok[k])
  /\ pc = "exited" =>
       /\ next = Len(targetUrls) + 1
       /\ (\E k \in 1..Len(targetUrls) : ScanThrows(targetUrls[k]))
            => exited = 1
       /\ Len(results) = 0 => (exited = 1 /\ ~printed)
       /\ Len(results) > 0 => printed

\* a run whose first URL failed scanned its second URL, whose result meets
\* the minimum grade, printed the report and exited with code 1
C25_Witness ==
  /\ pc = "exited"
  /\ Len(targetUrls) = 2
  /\ ScanThrows(targetUrls[1])
  /\ Len(results) = 1
  /\ results[1].url = WithProtocol(targetUrls[2])
  /\ opts.ci
  /\ meetsMinGrade(results[1].grade, EffectiveMinGrade)
  /\ printed
  /\ exited = 1

C27_RecommendationIffNotPass ==
  pc = "scanned" =>
    \A i \in 1..Len(checks) :
      (~checks[i].hasRec) <=> (checks[i].status = "pass")

\* a scan whose list holds all four statuses, the pass of the absent
\* X-XSS-Protection among them
C27_Witness ==
  /\ pc = "scanned"
  /\ "x-xss-protection" \notin DOMAIN headers
  /\ checks[10].status = "pass"
  /\ ~checks[10].hasRec
  /\ \A st \in Statuses :
       \E i \in 1..Len(checks) :
         checks[i].status = st /\ (checks[i].hasRec <=> st # "pass")

\* C28: a checker returns status missing only when the key of its header is
\* absent from the map or holds the empty string, and a check with status
\* missing has value null and score 0.
C28_MissingOnlyWhenAbsent ==
  pc = "scanned" =>
    \A i \in 1..Len(checks) :
      checks[i].status = "missing" =>
        /\ \/ HeaderNames[i] \notin DOMAIN headers
           \/ headers[HeaderNames[i]] = ""
        /\ checks[i].value = <<>>
        /\ checks[i].score = 0

\* a scan with a header sent with an empty value and reported missing, a
\* header not sent and reported missing, and a header sent with a value
\* the checker rejects, reported as fail
C28_Witness ==
  /\ pc = "scanned"
  /\ \E i \in 1..Len(checks) :
       /\ HeaderNames[i] \in DOMAIN headers
       /\ headers[HeaderNames[i]] = ""
       /\ checks[i].status = "missing"
  /\ \E i \in 1..Len(checks) :
       /\ HeaderNames[i] \notin DOMAIN headers
       /\ checks[i].status = "missing"
  /\ \E i \in 1..Len(checks) :
       /\ HeaderNames[i] \in DOMAIN headers
       /\ checks[i].status = "fail"
       /\ checks[i].value # <<>>

\* the list b is the list a with the scores of some checks raised: the
\* same checks with the same maxScore, no score lower, one at least higher
ScoresRaised(a, b) ==
  /\ Len(a) = Len(b)
  /\ \A i \in 1..Len(a) :
       /\ b[i].header = a[i].header
       /\ b[i].status = a[i].status
       /\ b[i].maxScore = a[i].maxScore
       /\ b[i].score >= a[i].score
  /\ \E i \in 1..Len(a) : b[i].score > a[i].score

\* C29: calculateGrade is monotone in the scores: when a second list is
\* the first with some scores raised (the maxScores being the same), its
\* grade is the same as or better than the grade of the first.
C29_GradeMonotone ==
  (result # <<>> /\ raised # <<>>
   /\ ScoresRaised(checks, raised[1].checks)) =>
    /\ Rank(raised[1].result.grade) <= Rank(result[1].grade)
    /\ raised[1].result.totalScore > result[1].totalScore
    /\ raised[1].result.maxScore = result[1].maxScore

\* two lists of ten checks were graded, the second with three scores
\* raised and a better grade
C29_Witness ==
  /\ result # <<>>
  /\ raised # <<>>
  /\ Len(checks) = 10
  /\ ScoresRaised(checks, raised[1].checks)
  /\ Cardinality({i \in 1..Len(checks) :
                    raised[1].checks[i].score > checks[i].score}) = 3
  /\ Rank(raised[1].result.grade) < Rank(result[1].grade)

====
